---- MODULE Spec2Model ----
(***************************************************************************)
(* Model of tools/code_graph_extractor/extractor.py: the single-file       *)
(* extraction entry point (extract_from_file) and the incremental          *)
(* directory sync engine (extract_from_directory).                         *)
(*                                                                         *)
(* The file system under the indexed root is the function fs; a call of    *)
(* extract_from_directory is a walk over the listed files, one loop        *)
(* iteration per step (VisitFile), that either returns or is left by an    *)
(* uncaught exception (pc = "raised").                                     *)
(***************************************************************************)
EXTENDS Integers, Sequences, FiniteSets, TLC

\* ------------------------------------------------------------------ bounds
\* At most MaxFiles directory entries exist under the root at once.
MaxFiles == 2
\* A table supplied by the caller from outside a chain has at most MaxEntries entries.
MaxEntries == 1
\* At most MaxEdits file-system changes happen between two chained syncs.
MaxEdits == 1

\* ------------------------------------------------------------- file system
\* A path relative to the root: directory components, stem and extension
\* (os.path.splitext of the file name).
Path(dirs, stem, ext) == [dirs |-> dirs, stem |-> stem, ext |-> ext]

Paths ==
    { Path(<<>>, "a", ".py"),
      Path(<<"sub">>, "B", ".JAVA"),
      Path(<<>>, "c", ".ts"),
      Path(<<>>, "m", ".go"),
      Path(<<>>, "notes", ".txt"),
      Path(<<"node_modules">>, "x", ".js") }

\* Spellings of the root directory a caller may pass.
Roots == {"proj"}

\* File contents, as byte sequences: "A", "B" followed by U+00E9 in UTF-8, and
\* a byte that is not valid UTF-8.
Contents == { <<65>>, <<66, 195, 169>>, <<255>> }

\* The state of one directory entry.  kind: "absent"; "file" (a readable
\* regular file holding bytes); "unreadable" (a regular file open() refuses
\* with PermissionError); "dangling" (a symbolic link whose target is gone:
\* os.walk lists it among the files, os.path.exists is False, open() raises
\* FileNotFoundError).
Absent == [kind |-> "absent", bytes |-> <<>>]
RegularFile(b) == [kind |-> "file", bytes |-> b]
Unreadable == [kind |-> "unreadable", bytes |-> <<>>]
Dangling == [kind |-> "dangling", bytes |-> <<>>]

\* The entry states explored for path p.  The walk never opens a file with an
\* unsupported extension or one below an ignored directory, so one content is
\* enough for those.
EntryStates(p) ==
    IF p.ext \in {".txt", ".js"} THEN { RegularFile(<<65>>) }
    ELSE { RegularFile(b) : b \in Contents } \cup { Unreadable, Dangling }

Present(fsx) == { p \in Paths : fsx[p].kind # "absent" }

FsStates ==
    { fsx \in [Paths -> UNION { EntryStates(p) : p \in Paths } \cup {Absent}] :
        /\ \A p \in Paths : fsx[p] = Absent \/ fsx[p] \in EntryStates(p)
        /\ Cardinality(Present(fsx)) <= MaxFiles }


\* ---------------------------------------------------------------- constants
\* SUPPORTED_EXTENSIONS: lowercase extension -> language tag.
SUPPORTED_EXTENSIONS ==
    [e \in {".ts", ".tsx", ".js", ".jsx", ".py", ".go", ".java"} |->
        CASE e \in {".ts", ".tsx"} -> "typescript"
          [] e \in {".js", ".jsx"} -> "javascript"
          [] e = ".py" -> "python"
          [] e = ".go" -> "go"
          [] e = ".java" -> "java"]

IGNORED_DIRS ==
    { "node_modules", ".git", "__pycache__", ".venv", "venv", "dist", "build",
      ".next", "coverage" }

\* ------------------------------------------------------------------ helpers
\* str.lower() on the extensions of Paths.
Lower(ext) ==
    CASE ext = ".JAVA" -> ".java"
      [] ext = ".PY" -> ".py"
      [] OTHER -> ext

\* os.path.join(root, filename) for the file at relative path p below the
\* directory the caller named; os.path.relpath(file_path, directory) undoes it.
JoinPath(dir, p) == [base |-> dir, rel |-> p]
RelPath(file_path, dir) == file_path.rel

\* os.path.basename(file_path)
BaseName(file_path) == file_path.rel.stem \o file_path.rel.ext

\* hashlib.md5(...).hexdigest(), taken as collision-free on the byte
\* sequences of the model: the digest is tagged with the bytes digested.
MD5(bytes) == [md5 |-> bytes]

\* bytes.decode('utf-8') for one- and two-byte sequences: <<FALSE, <<>>>> when
\* the bytes are not valid UTF-8, else <<TRUE, code points>>.
RECURSIVE Decode(_)
Decode(bytes) ==
    IF bytes = <<>> THEN <<TRUE, <<>>>>
    ELSE LET b == Head(bytes) IN
         IF b < 128 THEN
             LET r == Decode(Tail(bytes)) IN
             IF r[1] THEN <<TRUE, <<b>> \o r[2]>> ELSE <<FALSE, <<>>>>
         ELSE IF b >= 194 /\ b <= 223 /\ Len(bytes) >= 2
                 /\ bytes[2] >= 128 /\ bytes[2] <= 191 THEN
             LET r == Decode(Tail(Tail(bytes))) IN
             IF r[1] THEN <<TRUE, <<(b - 192) * 64 + (bytes[2] - 128)>> \o r[2]>>
             ELSE <<FALSE, <<>>>>
         ELSE <<FALSE, <<>>>>

\* str.encode() (UTF-8) for code points below U+0800.
RECURSIVE Encode(_)
Encode(text) ==
    IF text = <<>> THEN <<>>
    ELSE LET c == Head(text) IN
         (IF c < 128 THEN <<c>> ELSE <<192 + (c \div 64), 128 + (c % 64)>>)
            \o Encode(Tail(text))

\* The result of a call that may raise: exc is "" on a normal return.
Returned(v) == [exc |-> "", value |-> v]
Raised(e, v) == [exc |-> e, value |-> v]

\* compute_file_hash(file_path): open(file_path, 'rb') raises for an entry
\* that cannot be opened; nothing in the function catches it.
compute_file_hash(entry) ==
    CASE entry.kind = "file" -> Returned(MD5(entry.bytes))
      [] entry.kind = "unreadable" -> Raised("PermissionError", MD5(<<>>))
      [] OTHER -> Raised("FileNotFoundError", MD5(<<>>))

\* make_node_id(kind, file_path, name): "<kind>.<file_path>" when name is
\* empty or None, else "<kind>.<file_path>:<name>".  The string is kept as
\* the record of its parts; name "" stands for the id without a name part.
make_node_id(kind, file_path, name) ==
    [kind |-> kind, file_path |-> file_path, name |-> name]

\* detect_language(file_path): the language tag as a set of at most one
\* element (empty: None).
detect_language(p) ==
    IF Lower(p.ext) \in DOMAIN SUPPORTED_EXTENSIONS
    THEN { SUPPORTED_EXTENSIONS[Lower(p.ext)] } ELSE {}

\* servers.utils.read_text_file(file_path): the decoded text of the file.  A
\* file that is missing, unreadable or not decodable as text is an input
\* error that extract_from_file reports as a read failure, so the function
\* signals each of them with an exception its caller handles.
read_text_file(entry) ==
    CASE entry.kind = "file" ->
            IF Decode(entry.bytes)[1] THEN Returned(Decode(entry.bytes)[2])
            ELSE Raised("UnicodeDecodeError", <<>>)
      [] entry.kind = "unreadable" -> Raised("UnicodeDecodeError", <<>>)
      [] OTHER -> Raised("FileNotFoundError", <<>>)

\* ---------------------------------------------------------------- data model
\* CodeNode, CodeEdge (to_dict keeps every field; the fields the per-language
\* patterns fill differently are left out of the walk model).
CodeNode(id, kind, name, file_path, language, hash) ==
    [id |-> id, kind |-> kind, name |-> name, file_path |-> file_path,
     language |-> language, hash |-> hash]

CodeEdge(from_id, to_id, kind) == [from_id |-> from_id, to_id |-> to_id, kind |-> kind]

\* The external store the batches are handed to: the nodes and the edges it
\* holds.
EmptyStore == [nodes |-> {}, edges |-> {}]

\* The default '' of ExtractionResult.file_hash and of CodeNode.hash.
NoHash == [md5 |-> <<-1>>]

ExtractionResult(nodes, edges, file_path, file_hash, language, errs) ==
    [nodes |-> nodes, edges |-> edges, file_path |-> file_path,
     file_hash |-> file_hash, language |-> language, errors |-> errs]

\* An error string: its fixed prefix, the path formatted into it (NoPath when
\* the message names no path) and the remaining detail (a language tag or
\* the text of the exception).
NoPath == [base |-> "", rel |-> Path(<<>>, "", "")]
ErrorString(prefix, file_path, detail) ==
    [prefix |-> prefix, file_path |-> file_path, detail |-> detail]

\* ------------------------------------------------------ per-language extractors
\* The declarations a language's patterns recognise in a text.  The walk model
\* keeps one top-level declaration per capital ASCII letter of the text, named
\* by that letter.
DeclName(c) == IF c = 65 THEN "A" ELSE IF c = 66 THEN "B" ELSE "C"

DeclaredNames(content) ==
    SelectSeq(content, LAMBDA c : c >= 65 /\ c <= 90)

\* The part the three extractors share: the file node first, carrying the
\* checksum of content.encode(), then one node and one 'defines' edge from
\* the file node per recognised declaration.
ExtractWith(language, decl_kind, content, file_path) ==
    LET file_hash == MD5(Encode(content))
        file_id == make_node_id("file", file_path, "")
        names == DeclaredNames(content)
        decl(i) == CodeNode(make_node_id(decl_kind, file_path, DeclName(names[i])),
                            decl_kind, DeclName(names[i]), file_path, language, NoHash)
    IN ExtractionResult(
           <<CodeNode(file_id, "file", BaseName(file_path), file_path, language, file_hash)>>
               \o [i \in 1..Len(names) |-> decl(i)],
           [i \in 1..Len(names) |-> CodeEdge(file_id, decl(i).id, "defines")],
           file_path, file_hash, language, <<>>)

\* RegexExtractor.extract_typescript (also used for JavaScript: the result's
\* language is 'typescript' either way).
extract_typescript(content, file_path) ==
    ExtractWith("typescript", "function", content, file_path)

\* RegexExtractor.extract_python
extract_python(content, file_path) ==
    ExtractWith("python", "constant", content, file_path)

\* RegexExtractor.extract_java
extract_java(content, file_path) ==
    ExtractWith("java", "class", content, file_path)

\* ------------------------------------------------------------ extract_from_file
\* os.path.exists(file_path): False for an absent entry and for a dangling link.
PathExists(entry) == entry.kind \in {"file", "unreadable"}

\* The except clause of extract_from_file: the exceptions it turns into an
\* error string.
CaughtOnRead == {"FileNotFoundError", "UnicodeDecodeError"}

\* The dispatch on the language tag once the content is read.
Dispatch(language, content, file_path) ==
    CASE language \in {"typescript", "javascript"} -> extract_typescript(content, file_path)
      [] language = "python" -> extract_python(content, file_path)
      [] language = "java" -> extract_java(content, file_path)
      [] OTHER -> ExtractionResult(<<>>, <<>>, file_path, NoHash, language,
                      <<ErrorString("Extractor not implemented for", NoPath, language)>>)

\* extract_from_file with the extension tested before the existence.
extract_from_file_ext_first(file_path, entry) ==
    IF detect_language(file_path.rel) = {} THEN
        Returned(ExtractionResult(<<>>, <<>>, file_path, NoHash, "",
                     <<ErrorString("Unsupported file type", file_path, "")>>))
    ELSE IF ~PathExists(entry) THEN
        Returned(ExtractionResult(<<>>, <<>>, file_path, NoHash, "",
                     <<ErrorString("File not found", file_path, "")>>))
    ELSE LET language == CHOOSE l \in detect_language(file_path.rel) : TRUE
             read == read_text_file(entry)
         IN IF read.exc = "" THEN Returned(Dispatch(language, read.value, file_path))
            ELSE IF read.exc \in CaughtOnRead THEN
                Returned(ExtractionResult(<<>>, <<>>, file_path, NoHash, "",
                             <<ErrorString("Failed to read file", NoPath, read.exc)>>))
            ELSE Raised(read.exc,
                        ExtractionResult(<<>>, <<>>, file_path, NoHash, "", <<>>))

\* extract_from_file(file_path) on the entry found at that path: existence
\* first, then the extension, then the read, then the dispatch.
extract_from_file(file_path, entry) ==
    IF ~PathExists(entry) THEN
        Returned(ExtractionResult(<<>>, <<>>, file_path, NoHash, "",
                     <<ErrorString("File not found", file_path, "")>>))
    ELSE IF detect_language(file_path.rel) = {} THEN
        Returned(ExtractionResult(<<>>, <<>>, file_path, NoHash, "",
                     <<ErrorString("Unsupported file type", file_path, "")>>))
    ELSE LET language == CHOOSE l \in detect_language(file_path.rel) : TRUE
             read == read_text_file(entry)
         IN IF read.exc = "" THEN Returned(Dispatch(language, read.value, file_path))
            ELSE IF read.exc \in CaughtOnRead THEN
                Returned(ExtractionResult(<<>>, <<>>, file_path, NoHash, "",
                             <<ErrorString("Failed to read file", NoPath, read.exc)>>))
            ELSE Raised(read.exc,
                        ExtractionResult(<<>>, <<>>, file_path, NoHash, "", <<>>))

\* ------------------------------------------------------------------- state
VARIABLES
    dirExists,        \* os.path.isdir(directory)
    fs,               \* the entries below the root: Paths -> entry state
    heap,             \* the two dict objects: caller (the table the caller holds)
                      \* and local (the dict the running call allocated)
    argNone,          \* the caller passes file_hashes=None
    pc,               \* "idle", "walking", "returned", "raised", "file_done"
    directory,        \* argument of the running call
    incremental,      \* argument of the running call
    queue,            \* the files os.walk has still to yield, in order
    order,            \* the order in which os.walk lists this directory state
    new_hashes,       \* the object the name new_hashes is bound to
    all_nodes, all_edges, errors, files_processed, files_skipped,
    exception,        \* the exception that left the call ("" if none)
    invoked,          \* history: relative paths extract_from_file was called on
    skipped,          \* history: relative paths counted as skipped
    first,            \* the result of the first of two identical calls
    fileResult,       \* the outcome of a direct extract_from_file call
    snapshot,         \* history: fs when the caller's table was returned
    edits,            \* history: file-system changes since then
    chained,          \* "no": the table was supplied from outside; "inc": it
                      \* was returned by a chain of incremental syncs; "mixed"
    srcText,          \* the text of the file handed to a per-language extractor
    srcLang,          \* its language ("": no text is under extraction)
    extraction,       \* the outcome of the extractor on the text
    repeated,         \* the outcome of a second call on the same text and path
    store             \* the caller's store: the nodes and edges it holds

vars == <<dirExists, fs, heap, argNone, pc, directory, incremental, queue, order,
          new_hashes, all_nodes, all_edges, errors, files_processed, files_skipped,
          exception, invoked, skipped, first, fileResult, snapshot, edits, chained, store,
          srcText, srcLang, extraction, repeated>>

\* The variables of the extraction of one text.
textVars == <<srcText, srcLang, extraction, repeated>>

\* ------------------------------------------------------------------- dicts
EmptyDict == [p \in {} |-> NoHash]
Put(d, k, v) == [x \in DOMAIN d \cup {k} |-> IF x = k THEN v ELSE d[x]]

Hashes == { MD5(b) : b \in Contents }

\* The tables a caller may supply from outside a chain.
CallerTables ==
    UNION { [S -> Hashes] : S \in { T \in SUBSET Paths : Cardinality(T) <= MaxEntries } }

\* ------------------------------------------------------------------ os.walk
\* Pruned with the filter forgotten: the walk descends into every directory.
PrunedNever(p) == FALSE

\* dirs[:] = [d for d in dirs if d not in IGNORED_DIRS]: the walk never
\* descends into an ignored directory.
Pruned(p) == \E i \in 1..Len(p.dirs) : p.dirs[i] \in IGNORED_DIRS

\* The entries os.walk yields as files.
Listed(fsx) == { p \in Present(fsx) : ~Pruned(p) }

\* The orders in which os.walk(directory) can yield the files: the files of the
\* root before those of its sub-directories, the files of one directory
\* together, and otherwise in the arbitrary order of os.scandir.
WalkOrders(fsx) ==
    LET F == Listed(fsx)
        n == Cardinality(F)
    IN { q \in [1..n -> F] :
           /\ \A i, j \in 1..n : i # j => q[i] # q[j]
           /\ \A i, j \in 1..n : i < j => Len(q[i].dirs) <= Len(q[j].dirs)
           /\ \A i, j, k \in 1..n :
                  (i < j /\ j < k /\ q[i].dirs = q[k].dirs) => q[j].dirs = q[i].dirs }

\* ------------------------------------------------------- extract_from_directory
\* file_hashes = file_hashes or {}: the table the call reads.
FileHashesOrEmpty(none, table) == IF none THEN EmptyDict ELSE table

\* NewHashesObject bound to the caller's table (new_hashes = file_hashes).
NewHashesAliased == "caller"

\* new_hashes = {}: the name is bound to the dict the call allocates.
NewHashesObject == "local"

\* SupportedExt with the filter forgotten: every listed file is handled.
SupportedExtAny(p) == TRUE

\* if ext not in SUPPORTED_EXTENSIONS: continue, with ext lower-cased.
SupportedExt(p) == Lower(p.ext) \in DOMAIN SUPPORTED_EXTENSIONS

\* ChecksHash with the mode flag ignored.
ChecksHashAlways(inc) == TRUE

\* if incremental: the checksum is computed, and compared, only then.
ChecksHash(inc) == inc

\* SkipTest without the comparison of the checksums: any file the table knows
\* is skipped.
SkipTestPathOnly(file_hashes, rel_path, current_hash) == rel_path \in DOMAIN file_hashes

\* rel_path in file_hashes and file_hashes[rel_path] == current_hash
SkipTest(file_hashes, rel_path, current_hash) ==
    rel_path \in DOMAIN file_hashes /\ file_hashes[rel_path] = current_hash

\* DirectoryMissing with the test forgotten: the walk starts regardless.
DirectoryMissingNever(exists) == FALSE

\* if not os.path.isdir(directory): the early return.
DirectoryMissing(exists) == ~exists

\* CarryForward with the assignment forgotten.
CarryForwardDropped(d, rel_path, current_hash) == d

\* new_hashes[rel_path] = current_hash, for a skipped file.
CarryForward(d, rel_path, current_hash) == Put(d, rel_path, current_hash)

\* RecordHash into a dict emptied first: the entries recorded so far are lost.
RecordHashAlone(d, rel_path, file_hash) == Put(EmptyDict, rel_path, file_hash)

\* new_hashes[rel_path] = result.file_hash, for a processed file.
RecordHash(d, rel_path, file_hash) == Put(d, rel_path, file_hash)

\* The dict returned under 'file_hashes', and the whole returned dict.
ReturnedHashes == heap[new_hashes]
Result ==
    [nodes |-> all_nodes, edges |-> all_edges, files_processed |-> files_processed,
     files_skipped |-> files_skipped, errors |-> errors, file_hashes |-> ReturnedHashes]

\* The call up to the loop: the isdir test and the fresh accumulators.  q is
\* the order in which os.walk will yield the files.
Enter(dir, inc, q) ==
    /\ directory' = dir
    /\ incremental' = inc
    /\ order' = q
    /\ all_nodes' = <<>>
    /\ all_edges' = <<>>
    /\ files_processed' = 0
    /\ files_skipped' = 0
    /\ exception' = ""
    /\ invoked' = {}
    /\ skipped' = {}
    /\ fileResult' = {}
    /\ IF DirectoryMissing(dirExists)
       THEN /\ pc' = "returned"
            /\ errors' = <<ErrorString("Directory not found", JoinPath(dir, Path(<<>>, "", "")), "")>>
            /\ new_hashes' = "local"
            /\ heap' = [heap EXCEPT !.local = EmptyDict]
            /\ queue' = <<>>
       ELSE /\ pc' = "walking"
            /\ errors' = <<>>
            /\ new_hashes' = NewHashesObject
            /\ heap' = [heap EXCEPT !.local = EmptyDict]
            /\ queue' = q
    /\ UNCHANGED <<dirExists, fs, argNone, snapshot, edits, chained, store>>
    /\ UNCHANGED textVars

\* A caller invokes extract_from_directory(dir, inc, file_hashes=<its table>).
Call(dir, inc) ==
    /\ pc = "idle"
    /\ first' = {}
    /\ \E q \in WalkOrders(fs) : Enter(dir, inc, q)

\* One iteration of the loop over the files os.walk yields.
VisitFile ==
    /\ pc = "walking"
    /\ queue # <<>>
    /\ LET p == Head(queue)
           file_path == JoinPath(directory, p)
           rel_path == RelPath(file_path, directory)
           file_hashes == FileHashesOrEmpty(argNone, heap.caller)
           current == compute_file_hash(fs[p])
           r == extract_from_file(file_path, fs[p])
       IN IF ~SupportedExt(p) THEN
               /\ queue' = Tail(queue)
               /\ UNCHANGED <<pc, heap, all_nodes, all_edges, errors, files_processed,
                              files_skipped, exception, invoked, skipped>>
          ELSE IF ChecksHash(incremental) /\ current.exc # "" THEN
               /\ pc' = "raised"
               /\ exception' = current.exc
               /\ UNCHANGED <<queue, heap, all_nodes, all_edges, errors, files_processed,
                              files_skipped, invoked, skipped>>
          ELSE IF ChecksHash(incremental) /\ SkipTest(file_hashes, rel_path, current.value) THEN
               /\ files_skipped' = files_skipped + 1
               /\ heap' = [heap EXCEPT ![new_hashes] = CarryForward(@, rel_path, current.value)]
               /\ skipped' = skipped \cup {p}
               /\ queue' = Tail(queue)
               /\ UNCHANGED <<pc, all_nodes, all_edges, errors, files_processed,
                              exception, invoked>>
          ELSE IF r.exc # "" THEN
               /\ pc' = "raised"
               /\ exception' = r.exc
               /\ invoked' = invoked \cup {p}
               /\ UNCHANGED <<queue, heap, all_nodes, all_edges, errors, files_processed,
                              files_skipped, skipped>>
          ELSE IF r.value.errors # <<>> THEN
               /\ errors' = errors \o r.value.errors
               /\ invoked' = invoked \cup {p}
               /\ queue' = Tail(queue)
               /\ UNCHANGED <<pc, heap, all_nodes, all_edges, files_processed,
                              files_skipped, exception, skipped>>
          ELSE /\ all_nodes' = all_nodes \o r.value.nodes
               /\ all_edges' = all_edges \o r.value.edges
               /\ heap' = [heap EXCEPT ![new_hashes] = RecordHash(@, rel_path, r.value.file_hash)]
               /\ files_processed' = files_processed + 1
               /\ invoked' = invoked \cup {p}
               /\ queue' = Tail(queue)
               /\ UNCHANGED <<pc, errors, files_skipped, exception, skipped>>
    /\ UNCHANGED <<dirExists, fs, argNone, directory, incremental, order, new_hashes,
                   first, fileResult, snapshot, edits, chained, store>>
    /\ UNCHANGED textVars

\* The walk is over: the function returns its dict.
Return ==
    /\ pc = "walking"
    /\ queue = <<>>
    /\ pc' = "returned"
    /\ UNCHANGED <<dirExists, fs, heap, argNone, directory, incremental, queue, order,
                   new_hashes, all_nodes, all_edges, errors, files_processed,
                   files_skipped, exception, invoked, skipped, first, fileResult,
                   snapshot, edits, chained, store>>
    /\ UNCHANGED textVars

\* ------------------------------------------------------------------ callers
\* The caller's locals once a call is over and its result dropped.
Forget ==
    /\ pc' = "idle"
    /\ queue' = <<>>
    /\ order' = <<>>
    /\ all_nodes' = <<>>
    /\ all_edges' = <<>>
    /\ errors' = <<>>
    /\ files_processed' = 0
    /\ files_skipped' = 0
    /\ exception' = ""
    /\ invoked' = {}
    /\ skipped' = {}
    /\ first' = {}
    /\ fileResult' = {}
    /\ new_hashes' = "local"
    /\ incremental' = FALSE
    /\ UNCHANGED <<dirExists, fs, argNone, directory>>
    /\ UNCHANGED textVars

\* The caller keeps its own table and goes on.
Finish ==
    /\ pc \in {"returned", "raised", "file_done"}
    /\ Forget
    /\ heap' = [heap EXCEPT !.local = EmptyDict]
    /\ UNCHANGED <<snapshot, edits, chained, store>>

\* The caller makes the returned table its table for the next sync.
TakeTable ==
    /\ pc = "returned"
    /\ dirExists
    /\ Forget
    /\ heap' = [caller |-> ReturnedHashes, local |-> EmptyDict]
    /\ snapshot' = fs
    /\ edits' = 0
    /\ chained' = IF incremental /\ (chained = "inc" \/ (argNone \/ heap.caller = EmptyDict))
                  THEN "inc" ELSE "mixed"

Chain == TakeTable /\ UNCHANGED store

\* The store after a batch is handed to it: the nodes and edges it held of
\* each file the batch has nodes of are discarded, and those of the batch
\* are put in their place.
Replaced(held, nodes, edges) ==
    [nodes |-> { n \in held.nodes :
                   \A i \in 1..Len(nodes) : nodes[i].file_path # n.file_path }
               \cup { nodes[i] : i \in 1..Len(nodes) },
     edges |-> { e \in held.edges :
                   \A i \in 1..Len(nodes) : nodes[i].file_path # e.from_id.file_path }
               \cup { edges[i] : i \in 1..Len(edges) }]

\* The caller hands the returned batch to its store and makes the returned
\* table its table for the next sync.
Commit == TakeTable /\ store' = Replaced(store, all_nodes, all_edges)

\* The caller repeats the call it just made, with the same arguments, on the
\* unchanged directory.
Again ==
    /\ pc = "returned"
    /\ first = {}
    /\ first' = {Result}
    /\ Enter(directory, incremental, order)

\* A direct call extract_from_file(os.path.join(dir, p)).
FileCall(dir, p) ==
    /\ pc = "idle"
    /\ pc' = "file_done"
    /\ directory' = dir
    /\ fileResult' = {extract_from_file(JoinPath(dir, p), fs[p])}
    /\ UNCHANGED <<dirExists, fs, heap, argNone, incremental, queue, order, new_hashes,
                   all_nodes, all_edges, errors, files_processed, files_skipped,
                   exception, invoked, skipped, first, snapshot, edits, chained, store>>
    /\ UNCHANGED textVars

\* ---------------------------------------------------------------- the world
\* Between two syncs an entry is created, rewritten, made unreadable or removed.
Edit(p, e) ==
    /\ pc = "idle"
    /\ dirExists
    /\ edits < MaxEdits
    /\ e \in EntryStates(p) \cup {Absent}
    /\ e # fs[p]
    /\ Cardinality(Present([fs EXCEPT ![p] = e])) <= MaxFiles
    /\ fs' = [fs EXCEPT ![p] = e]
    /\ edits' = edits + 1
    /\ UNCHANGED <<dirExists, heap, argNone, pc, directory, incremental, queue, order,
                   new_hashes, all_nodes, all_edges, errors, files_processed,
                   files_skipped, exception, invoked, skipped, first, fileResult,
                   snapshot, chained, store>>
    /\ UNCHANGED textVars

\* ------------------------------------------------------------ specifications
Quiet ==
    /\ pc = "idle"
    /\ directory = "proj"
    /\ incremental = FALSE
    /\ queue = <<>>
    /\ order = <<>>
    /\ new_hashes = "local"
    /\ all_nodes = <<>>
    /\ all_edges = <<>>
    /\ errors = <<>>
    /\ files_processed = 0
    /\ files_skipped = 0
    /\ exception = ""
    /\ invoked = {}
    /\ skipped = {}
    /\ first = {}
    /\ fileResult = {}
    /\ edits = 0
    /\ chained = "no"
    /\ store = EmptyStore
    /\ extraction = {}
    /\ repeated = {}

\* No text is under extraction.
NoText == srcText = <<>> /\ srcLang = ""

\* Any directory state, any table supplied by the caller; the directory does
\* not change.
Init ==
    /\ Quiet
    /\ fs \in FsStates
    /\ dirExists \in BOOLEAN
    /\ ~dirExists => Present(fs) = {}
    /\ argNone \in BOOLEAN
    /\ heap \in { [caller |-> t, local |-> EmptyDict] : t \in CallerTables }
    /\ argNone => heap.caller = EmptyDict
    /\ snapshot = fs
    /\ NoText

Next ==
    \/ \E dir \in Roots, inc \in BOOLEAN : Call(dir, inc)
    \/ VisitFile
    \/ Return
    \/ Again
    \/ Chain
    \/ Finish
    \/ \E dir \in Roots, p \in Paths : FileCall(dir, p)

Spec == Init /\ [][Next]_vars

\* A chain of syncs, each fed the table the previous one returned, with the
\* directory changing in between; the first sync has no table.
InitChain ==
    /\ Quiet
    /\ fs \in FsStates
    /\ dirExists = TRUE
    /\ argNone = FALSE
    /\ heap = [caller |-> EmptyDict, local |-> EmptyDict]
    /\ snapshot = fs
    /\ NoText

Recover ==
    /\ pc = "raised"
    /\ Finish

NextChain ==
    \/ \E dir \in Roots, inc \in BOOLEAN : Call(dir, inc)
    \/ VisitFile
    \/ Return
    \/ Chain
    \/ Recover
    \/ \E p \in Paths, e \in UNION { EntryStates(x) : x \in Paths } \cup {Absent} : Edit(p, e)

SpecChain == InitChain /\ [][NextChain]_vars

\* A chain of incremental syncs from an empty table and an empty store, each
\* batch handed to the store, with the directory changing in between.
NextStore ==
    \/ \E dir \in Roots : Call(dir, TRUE)
    \/ VisitFile
    \/ Return
    \/ Commit
    \/ Recover
    \/ \E p \in Paths, e \in UNION { EntryStates(x) : x \in Paths } \cup {Absent} : Edit(p, e)

SpecStore == InitChain /\ [][NextStore]_vars

\* =============================================================== source text
\* The text of a source file, as the per-language extractors read it: a
\* sequence of symbols, each an identifier or keyword (what \w+ matches), a
\* punctuation character, a blank or a line break.  No two words are adjacent.
Whitespace == {" ", "\n"}

Punctuation ==
    {"{", "}", "(", ")", "<", ">", "[", "]", ",", ";", ".", ":", "=", "=>", "@", "*",
     "\"", "'", "\\", "/*", "*/", "//", "#"}

\* \w+ : one word.
Word(s) == s # "" /\ s \notin Whitespace /\ s \notin Punctuation

\* [A-Z]\w* : the capitalised words of the texts explored.
Capitalized == {"A", "B", "C", "I", "J", "K", "M", "R", "T", "V", "X"}

\* [A-Z][A-Z0-9_]* : among them, the words in upper case throughout (all of
\* them are, being single letters).
UpperCase == Capitalized

\* The symbol at position p, "" beyond either end of the text.
At(c, p) == IF p >= 1 /\ p <= Len(c) THEN c[p] ELSE ""

\* The symbols of a group, joined back into the string they spell.
RECURSIVE Join(_)
Join(s) == IF s = <<>> THEN "" ELSE Head(s) \o Join(Tail(s))

\* Matching moves a cursor: each step takes the position it starts at and
\* yields the position after what it matched, 0 when it does not match (and
\* when the step before it did not).
\* ^ under re.MULTILINE
LineStart(c, p) == p = 1 \/ At(c, p - 1) = "\n"

\* \s*
RECURSIVE Ws0(_, _)
Ws0(c, p) == IF p = 0 THEN 0 ELSE IF At(c, p) \in Whitespace THEN Ws0(c, p + 1) ELSE p

\* \s+
Ws1(c, p) == IF p # 0 /\ At(c, p) \in Whitespace THEN Ws0(c, p) ELSE 0

\* a literal symbol
Lit(c, p, w) == IF p # 0 /\ At(c, p) = w THEN p + 1 ELSE 0

\* \w+
AWord(c, p) == IF p # 0 /\ Word(At(c, p)) THEN p + 1 ELSE 0

\* (?:w\s+)? for w in ws: the words of ws are none of them what may follow.
OptWs(c, p, ws) ==
    IF p # 0 /\ At(c, p) \in ws /\ Ws1(c, p + 1) # 0 THEN Ws1(c, p + 1) ELSE p

\* [\w...]* : the longest run of words and of the characters of cls.
RECURSIVE RunIn(_, _, _)
RunIn(c, p, cls) ==
    IF p = 0 THEN 0
    ELSE IF Word(At(c, p)) \/ At(c, p) \in cls THEN RunIn(c, p + 1, cls) ELSE p

\* [^...]* : the longest run of symbols that are not in cls.
RECURSIVE RunNot(_, _, _)
RunNot(c, p, cls) ==
    IF p = 0 THEN 0
    ELSE IF At(c, p) # "" /\ At(c, p) \notin cls THEN RunNot(c, p + 1, cls) ELSE p

\* the same runs, of one symbol at least ([...]+)
RunIn1(c, p, cls) == IF RunIn(c, p, cls) > p THEN RunIn(c, p, cls) ELSE 0
RunNot1(c, p, cls) == IF RunNot(c, p, cls) > p THEN RunNot(c, p, cls) ELSE 0

\* (?:<[^>]+>)? directly after a name
OptGeneric(c, p) ==
    IF Lit(c, RunNot1(c, Lit(c, p, "<"), {">"}), ">") # 0
    THEN Lit(c, RunNot1(c, Lit(c, p, "<"), {">"}), ">") ELSE p

\* match.group(n) of a group spanning the positions from..to-1; '' (falsy, as
\* None is) when the group took no part in the match.
Group(c, from, to) == IF from = 0 \/ to = 0 THEN <<>> ELSE SubSeq(c, from, to - 1)

\* content[:match.start()].count('\n') + 1
LineOf(c, start) == Cardinality({ i \in 1..(start - 1) : c[i] = "\n" }) + 1

\* str.split(sep): the pieces between the occurrences of the symbol sep.
RECURSIVE Split(_, _)
Split(s, sep) ==
    IF \A i \in 1..Len(s) : s[i] # sep THEN <<s>>
    ELSE LET k == CHOOSE i \in 1..Len(s) : s[i] = sep /\ \A j \in 1..(i - 1) : s[j] # sep
         IN <<SubSeq(s, 1, k - 1)>> \o Split(SubSeq(s, k + 1, Len(s)), sep)

\* str.strip()
RECURSIVE Strip(_)
Strip(s) ==
    IF s = <<>> THEN s
    ELSE IF Head(s) \in Whitespace THEN Strip(Tail(s))
    ELSE IF s[Len(s)] \in Whitespace THEN Strip(SubSeq(s, 1, Len(s) - 1))
    ELSE s

\* ------------------------------------------------------------ the patterns
\* A match object: where the match starts and ends and its groups 1 to 4.
\* While a pattern is being matched, end is the cursor; end 0: the pattern
\* does not match at start.
Match(start, end, g1, g2, g3, g4) ==
    [start |-> start, end |-> end, g1 |-> g1, g2 |-> g2, g3 |-> g3, g4 |-> g4]

\* The match of nothing yet, at position p.
Begin(p) == Match(p, p, <<>>, <<>>, <<>>, <<>>)

SetGroup(m, k, g) ==
    CASE k = 1 -> [m EXCEPT !.g1 = g]
      [] k = 2 -> [m EXCEPT !.g2 = g]
      [] k = 3 -> [m EXCEPT !.g3 = g]
      [] OTHER -> [m EXCEPT !.g4 = g]

\* ( ... ) as group k: what lies between the cursor and the position e.
Capture(c, m, k, e) == SetGroup([m EXCEPT !.end = e], k, Group(c, m.end, e))

\* (\w+), ([\w...]+), ([^...]*) and ([^...]+) as group k
CaptureWord(c, m, k) == Capture(c, m, k, AWord(c, m.end))
CaptureRunIn1(c, m, cls, k) == Capture(c, m, k, RunIn1(c, m.end, cls))
CaptureRunNot(c, m, cls, k) == Capture(c, m, k, RunNot(c, m.end, cls))
CaptureRunNot1(c, m, cls, k) == Capture(c, m, k, RunNot1(c, m.end, cls))

\* ([A-Z][A-Z0-9_]*) as group k
CaptureUpperCase(c, m, k) ==
    Capture(c, m, k, IF At(c, m.end) \in UpperCase THEN m.end + 1 ELSE 0)

Visibility == {"public", "private", "protected"}

\* (?:<optional part>)? : the position after the part when it matched.
Opt(p, after) == IF after # 0 THEN after ELSE p

\* The same, of a part with a group in it.
Optional(m, after) == IF after.end # 0 THEN after ELSE m

\* (?:\s+keyword\s+([\w...]+))? with group k
ClauseRunIn(c, m, keyword, cls, k) ==
    Optional(m, CaptureRunIn1(c, [m EXCEPT !.end = Ws1(c, Lit(c, Ws1(c, @), keyword))],
                              cls, k))

\* (?:\s+keyword\s+(\w+))? with group k
ClauseWord(c, m, keyword, k) ==
    Optional(m, CaptureWord(c, [m EXCEPT !.end = Ws1(c, Lit(c, Ws1(c, @), keyword))], k))

\* (?:\s+keyword\s+([^...]+))? with group k
ClauseRunNot(c, m, keyword, cls, k) ==
    Optional(m, CaptureRunNot1(c, [m EXCEPT !.end = Ws1(c, Lit(c, Ws1(c, @), keyword))],
                               cls, k))

\* [\w\s,.<>] : the characters of a list of supertypes.
TypeList == Whitespace \cup {",", ".", "<", ">"}

\* JAVA_PATTERNS['package']: ^\s*package\s+([\w.]+)\s*;
JAVA_package(c, p) ==
    [CaptureRunIn1(c, [Begin(p) EXCEPT !.end = Ws1(c, Lit(c, Ws0(c, @), "package"))],
                   {"."}, 1)
        EXCEPT !.end = Lit(c, Ws0(c, @), ";")]

\* JAVA_PATTERNS['import']: ^\s*import\s+(?:static\s+)?([\w.*]+)\s*;
JAVA_import(c, p) ==
    [CaptureRunIn1(c, [Begin(p) EXCEPT
                          !.end = OptWs(c, Ws1(c, Lit(c, Ws0(c, @), "import")), {"static"})],
                   {".", "*"}, 1)
        EXCEPT !.end = Lit(c, Ws0(c, @), ";")]

\* JAVA_PATTERNS['class']: ^\s*(visibility)?(abstract)?(final)?(static)?
\* class\s+(\w+)(?:<[^>]+>)?(?:\s+extends\s+([\w.<>]+))?
\* (?:\s+implements\s+([\w\s,.<>]+))?\s*\{
JAVA_class(c, p) ==
    [ClauseRunIn(c,
         ClauseRunIn(c,
             [CaptureWord(c,
                  [Begin(p) EXCEPT !.end =
                      Ws1(c, Lit(c, OptWs(c, OptWs(c, OptWs(c, OptWs(c, Ws0(c, @),
                          Visibility), {"abstract"}), {"final"}), {"static"}), "class"))],
                  1)
                 EXCEPT !.end = OptGeneric(c, @)],
             "extends", {".", "<", ">"}, 2),
         "implements", TypeList, 3)
        EXCEPT !.end = Lit(c, Ws0(c, @), "{")]

\* JAVA_PATTERNS['interface']: ^\s*(visibility)?interface\s+(\w+)(?:<[^>]+>)?
\* (?:\s+extends\s+([\w\s,.<>]+))?\s*\{
JAVA_interface(c, p) ==
    [ClauseRunIn(c,
         [CaptureWord(c,
              [Begin(p) EXCEPT !.end =
                  Ws1(c, Lit(c, OptWs(c, Ws0(c, @), Visibility), "interface"))],
              1)
             EXCEPT !.end = OptGeneric(c, @)],
         "extends", TypeList, 2)
        EXCEPT !.end = Lit(c, Ws0(c, @), "{")]

\* JAVA_PATTERNS['enum']: ^\s*(visibility)?enum\s+(\w+)
\* (?:\s+implements\s+([\w\s,.<>]+))?\s*\{
JAVA_enum(c, p) ==
    [ClauseRunIn(c,
         CaptureWord(c,
             [Begin(p) EXCEPT !.end =
                 Ws1(c, Lit(c, OptWs(c, Ws0(c, @), Visibility), "enum"))],
             1),
         "implements", TypeList, 2)
        EXCEPT !.end = Lit(c, Ws0(c, @), "{")]

\* JAVA_PATTERNS['annotation']: ^\s*(visibility)?@interface\s+(\w+)\s*\{
JAVA_annotation(c, p) ==
    [CaptureWord(c,
         [Begin(p) EXCEPT !.end =
             Ws1(c, Lit(c, Lit(c, OptWs(c, Ws0(c, @), Visibility), "@"), "interface"))],
         1)
        EXCEPT !.end = Lit(c, Ws0(c, @), "{")]

\* @\w+(?:\([^)]*\))? : one annotation, without the blanks after it.
Annotation(c, p) ==
    Opt(AWord(c, Lit(c, p, "@")),
        Lit(c, RunNot(c, Lit(c, AWord(c, Lit(c, p, "@")), "("), {")"}), ")"))

\* (?:@\w+(?:\([^)]*\))?\s+)* : the annotations before a method.
RECURSIVE Annotations(_, _)
Annotations(c, p) ==
    IF Ws1(c, Annotation(c, p)) # 0 THEN Annotations(c, Ws1(c, Annotation(c, p))) ELSE p

Primitives == {"void", "int", "long", "short", "byte", "char", "boolean", "float", "double"}

\* ([A-Z][\w.<>\[\]]*|void|int|long|short|byte|char|boolean|float|double):
\* the return-type slot of the method pattern.
ReturnTypeSlot(c, p) ==
    IF p # 0 /\ At(c, p) \in Capitalized THEN RunIn(c, p + 1, {".", "<", ">", "[", "]"})
    ELSE IF p # 0 /\ At(c, p) \in Primitives THEN p + 1
    ELSE 0

\* the return-type slot as group k
CaptureReturnType(c, m, k) == Capture(c, m, k, ReturnTypeSlot(c, m.end))

\* (annotations)*(visibility)?(static)?(final)?(abstract)?(synchronized)?
\* (native)? : what may stand before the method's type.
Modifiers(c, p) ==
    OptWs(c, OptWs(c, OptWs(c, OptWs(c, OptWs(c, OptWs(c, Annotations(c, Ws0(c, p)),
        Visibility), {"static"}), {"final"}), {"abstract"}), {"synchronized"}), {"native"})

\* (?:<[^>]+>\s+)? : the type parameters of a generic method.
TypeParameters(c, p) == Opt(p, Ws1(c, Lit(c, RunNot1(c, Lit(c, p, "<"), {">"}), ">")))

\* JAVA_PATTERNS['method']: ^\s*(annotations)*(visibility)?(static)?(final)?
\* (abstract)?(synchronized)?(native)?(?:<[^>]+>\s+)?(return type)\s+(\w+)\s*
\* \(([^)]*)\)(?:\s+throws\s+([\w\s,.<>]+))?\s*(?:\{|;)
JAVA_method(c, p) ==
    [ClauseRunIn(c,
         [CaptureRunNot(c,
              [CaptureWord(c,
                   [CaptureReturnType(c,
                        [Begin(p) EXCEPT !.end = TypeParameters(c, Modifiers(c, @))], 1)
                       EXCEPT !.end = Ws1(c, @)],
                   2)
                  EXCEPT !.end = Lit(c, Ws0(c, @), "(")],
              {")"}, 3)
             EXCEPT !.end = Lit(c, @, ")")],
         "throws", TypeList, 4)
        EXCEPT !.end = Opt(Lit(c, Ws0(c, @), "{"), Lit(c, Ws0(c, @), ";"))]

\* JAVA_PATTERNS['constant']: ^\s*(visibility)?static\s+final\s+([\w.<>\[\]]+)\s+
\* ([A-Z][A-Z0-9_]*)\s*=
JAVA_constant(c, p) ==
    [CaptureUpperCase(c,
         [CaptureRunIn1(c,
              [Begin(p) EXCEPT !.end =
                  Ws1(c, Lit(c, Ws1(c, Lit(c, OptWs(c, Ws0(c, @), Visibility), "static")),
                             "final"))],
              {".", "<", ">", "[", "]"}, 1)
             EXCEPT !.end = Ws1(c, @)],
         2)
        EXCEPT !.end = Lit(c, Ws0(c, @), "=")]

Quotes == {"'", "\""}

\* \{[^}]+\}|\*\s+as\s+\w+|\w+ : what a TypeScript import names.
ImportClause(c, p) ==
    Opt(Opt(AWord(c, p), AWord(c, Ws1(c, Lit(c, Ws1(c, Lit(c, p, "*")), "as")))),
        Lit(c, RunNot1(c, Lit(c, p, "{"), {"}"}), "}"))

\* ['"]
Quote(c, p) == IF At(c, p) \in Quotes THEN p + 1 ELSE 0

\* TS_PATTERNS['import']: ^import\s+(?:(?:\{[^}]+\}|\*\s+as\s+\w+|\w+)\s+from\s+)?
\* ['"]([^'"]+)['"]
TS_import(c, p) ==
    [CaptureRunNot1(c,
         [[Begin(p) EXCEPT !.end = Ws1(c, Lit(c, @, "import"))]
             EXCEPT !.end = Quote(c, Opt(@, Ws1(c, Lit(c, Ws1(c, ImportClause(c, @)),
                                                      "from"))))],
         Quotes, 1)
        EXCEPT !.end = Quote(c, @)]

\* TS_PATTERNS['export_function']: ^export\s+(?:async\s+)?function\s+(\w+)
TS_export_function(c, p) ==
    CaptureWord(c,
        [Begin(p) EXCEPT !.end =
            Ws1(c, Lit(c, OptWs(c, Ws1(c, Lit(c, @, "export")), {"async"}), "function"))],
        1)

\* (?::\s*[^=]+)? : the return type of an arrow function.
ArrowType(c, p) == Opt(p, RunNot1(c, Ws0(c, Lit(c, p, ":")), {"=", "=>"}))

\* TS_PATTERNS['export_const_arrow']: ^export\s+const\s+(\w+)\s*=\s*(?:async\s+)?
\* \([^)]*\)\s*(?::\s*[^=]+)?\s*=>
TS_export_const_arrow(c, p) ==
    [CaptureWord(c,
         [Begin(p) EXCEPT !.end = Ws1(c, Lit(c, Ws1(c, Lit(c, @, "export")), "const"))], 1)
        EXCEPT !.end =
            Lit(c, Ws0(c, ArrowType(c, Ws0(c, Lit(c, RunNot(c, Lit(c,
                OptWs(c, Ws0(c, Lit(c, Ws0(c, @), "=")), {"async"}), "("), {")"}), ")")))),
                "=>")]

\* TS_PATTERNS['class']: ^(?:export\s+)?(?:abstract\s+)?class\s+(\w+)
\* (?:\s+extends\s+(\w+))?(?:\s+implements\s+([^{]+))?
TS_class(c, p) ==
    ClauseRunNot(c,
        ClauseWord(c,
            CaptureWord(c,
                [Begin(p) EXCEPT !.end =
                    Ws1(c, Lit(c, OptWs(c, OptWs(c, @, {"export"}), {"abstract"}), "class"))],
                1),
            "extends", 2),
        "implements", {"{"}, 3)

\* TS_PATTERNS['interface']: ^(?:export\s+)?interface\s+(\w+)
\* (?:\s+extends\s+([^{]+))?
TS_interface(c, p) ==
    ClauseRunNot(c,
        CaptureWord(c,
            [Begin(p) EXCEPT !.end = Ws1(c, Lit(c, OptWs(c, @, {"export"}), "interface"))],
            1),
        "extends", {"{"}, 2)

\* TS_PATTERNS['type']: ^(?:export\s+)?type\s+(\w+)\s*=
TS_type(c, p) ==
    [CaptureWord(c,
         [Begin(p) EXCEPT !.end = Ws1(c, Lit(c, OptWs(c, @, {"export"}), "type"))], 1)
        EXCEPT !.end = Lit(c, Ws0(c, @), "=")]

\* (?:from\s+(\S+)\s+)? with group 1
FromClause(c, m) ==
    Optional(m, [CaptureRunNot1(c, [m EXCEPT !.end = Ws1(c, Lit(c, @, "from"))],
                                Whitespace, 1)
                    EXCEPT !.end = Ws1(c, @)])

\* The \s+ before (.+)$ : it takes every blank and line break it can, but
\* leaves (.+) a blank when the text ends with them.
BlanksBeforeRest(c, w) ==
    LET blanks == { k \in (w + 1)..Len(c) : c[k] = " " }
    IN IF Ws1(c, w) = 0 THEN 0
       ELSE IF Ws1(c, w) <= Len(c) THEN Ws1(c, w)
       ELSE IF blanks # {} THEN CHOOSE k \in blanks : \A l \in blanks : l <= k
       ELSE 0

\* PY_PATTERNS['import']: ^(?:from\s+(\S+)\s+)?import\s+(.+)$
PY_import(c, p) ==
    CaptureRunNot1(c,
        [FromClause(c, Begin(p)) EXCEPT !.end = BlanksBeforeRest(c, Lit(c, @, "import"))],
        {"\n"}, 2)

\* PY_PATTERNS['function']: ^(?:async\s+)?def\s+(\w+)\s*\(
PY_function(c, p) ==
    [CaptureWord(c, [Begin(p) EXCEPT !.end = Ws1(c, Lit(c, OptWs(c, @, {"async"}), "def"))],
                 1)
        EXCEPT !.end = Lit(c, Ws0(c, @), "(")]

\* (?:\s*\(([^)]*)\))? with group 2
Bases(c, m) ==
    Optional(m, [CaptureRunNot(c, [m EXCEPT !.end = Lit(c, Ws0(c, @), "(")], {")"}, 2)
                    EXCEPT !.end = Lit(c, @, ")")])

\* PY_PATTERNS['class']: ^class\s+(\w+)(?:\s*\(([^)]*)\))?:
PY_class(c, p) ==
    [Bases(c, CaptureWord(c, [Begin(p) EXCEPT !.end = Ws1(c, Lit(c, @, "class"))], 1))
        EXCEPT !.end = Lit(c, @, ":")]

\* PY_PATTERNS['const']: ^([A-Z][A-Z0-9_]*)\s*=
PY_const(c, p) ==
    [CaptureUpperCase(c, Begin(p), 1) EXCEPT !.end = Lit(c, Ws0(c, @), "=")]

\* The first position after p at which a line starts (beyond the text when
\* there is none).
NextLineStart(c, p) ==
    IF \E q \in (p + 1)..Len(c) : LineStart(c, q)
    THEN CHOOSE q \in (p + 1)..Len(c) :
             LineStart(c, q) /\ \A r \in (p + 1)..(q - 1) : ~LineStart(c, r)
    ELSE Len(c) + 1

\* pattern.finditer(content): the matches from left to right, each search
\* resuming where the previous match ended.  Every pattern is anchored by ^;
\* at[q] is the pattern's match at position q.
RECURSIVE finditer(_, _, _)
RECURSIVE FoundOrNot(_, _, _, _)
finditer(at, c, p) ==
    IF p > Len(c) THEN <<>>
    ELSE IF LineStart(c, p) THEN FoundOrNot(at, c, p, at[p])
    ELSE finditer(at, c, NextLineStart(c, p))

FoundOrNot(at, c, p, m) ==
    IF m.end # 0 THEN <<m>> \o finditer(at, c, m.end)
    ELSE finditer(at, c, NextLineStart(c, p))

\* ------------------------------------------------- comments and block ends
\* re.sub(r'/\*[\s\S]*?\*/', '', content): each block comment, up to the
\* first */ after its /*, is removed.
RECURSIVE RemoveBlockComments(_)
RemoveBlockComments(c) ==
    IF \E i, j \in 1..Len(c) : i < j /\ c[i] = "/*" /\ c[j] = "*/" THEN
        LET i == CHOOSE k \in 1..Len(c) : c[k] = "/*" /\ \A l \in 1..(k - 1) : c[l] # "/*"
            j == CHOOSE k \in (i + 1)..Len(c) :
                     c[k] = "*/" /\ \A l \in (i + 1)..(k - 1) : c[l] # "*/"
        IN SubSeq(c, 1, i - 1) \o RemoveBlockComments(SubSeq(c, j + 1, Len(c)))
    ELSE c

\* re.sub(r'//[^\n]*', '', content)
RECURSIVE RemoveLineComments(_)
RemoveLineComments(c) ==
    IF \E i \in 1..Len(c) : c[i] = "//" THEN
        LET i == CHOOSE k \in 1..Len(c) : c[k] = "//" /\ \A l \in 1..(k - 1) : c[l] # "//"
        IN SubSeq(c, 1, i - 1) \o RemoveLineComments(SubSeq(c, RunNot(c, i, {"\n"}), Len(c)))
    ELSE c

\* RegexExtractor._remove_java_comments
remove_java_comments(content) == RemoveLineComments(RemoveBlockComments(content))

\* The inner loop of _find_java_block_end over the characters of one line,
\* from character j with the scanner state st; closed: the return was reached.
RECURSIVE JavaLineScan(_, _, _)
JavaLineScan(line, j, st) ==
    IF j > Len(line) THEN st
    ELSE LET char == line[j] IN
        IF st.escape_next THEN JavaLineScan(line, j + 1, [st EXCEPT !.escape_next = FALSE])
        ELSE IF char = "\\" THEN JavaLineScan(line, j + 1, [st EXCEPT !.escape_next = TRUE])
        ELSE IF char = "\"" /\ ~st.in_char THEN
            JavaLineScan(line, j + 1, [st EXCEPT !.in_string = ~@])
        ELSE IF char = "'" /\ ~st.in_string THEN
            JavaLineScan(line, j + 1, [st EXCEPT !.in_char = ~@])
        ELSE IF st.in_string \/ st.in_char THEN JavaLineScan(line, j + 1, st)
        ELSE IF char = "{" THEN
            JavaLineScan(line, j + 1, [st EXCEPT !.brace_count = @ + 1, !.started = TRUE])
        ELSE IF char = "}" THEN
            IF st.started /\ st.brace_count - 1 = 0 THEN [st EXCEPT !.closed = TRUE]
            ELSE JavaLineScan(line, j + 1, [st EXCEPT !.brace_count = @ - 1])
        ELSE JavaLineScan(line, j + 1, st)

\* The outer loop, from line i (counted from 1).
RECURSIVE JavaBlockScan(_, _, _)
JavaBlockScan(lines, i, st) ==
    IF i > Len(lines) THEN Len(lines)
    ELSE IF JavaLineScan(lines[i], 1, st).closed THEN i
    ELSE JavaBlockScan(lines, i + 1, JavaLineScan(lines[i], 1, st))

\* RegexExtractor._find_java_block_end(lines, start_line): start_line counts
\* from 0, the line returned from 1.
find_java_block_end(lines, start_line) ==
    JavaBlockScan(lines, start_line + 1,
        [brace_count |-> 0, started |-> FALSE, in_string |-> FALSE,
         in_char |-> FALSE, escape_next |-> FALSE, closed |-> FALSE])

\* ------------------------------------------------- nodes and edges, in full
\* CodeEdge.confidence, in tenths: the default 1.0, and the 0.8 of an edge
\* whose target file is not known.
ConfidenceDefault == 10
ConfidenceUnresolved == 8

\* CodeNode with its line span (line_start = line_end = 0 by default); hash
\* is a set of at most one checksum (empty: None).
CodeNodeAt(id, kind, name, file_path, language, hash, line_start, line_end) ==
    [id |-> id, kind |-> kind, name |-> name, file_path |-> file_path,
     language |-> language, hash |-> hash, line_start |-> line_start,
     line_end |-> line_end]

\* CodeEdge with line_number (0: None) and confidence.
CodeEdgeAt(from_id, to_id, kind, line_number, confidence) ==
    [from_id |-> from_id, to_id |-> to_id, kind |-> kind,
     line_number |-> line_number, confidence |-> confidence]

\* f"{kind}.{name}": the id of a target named without its file.
BareId(kind, name) == [bare |-> kind, name |-> name]

\* FileNode without the checksum.
FileNodeUnhashed(file_path, language, file_hash) ==
    CodeNodeAt(make_node_id("file", file_path, ""), "file", BaseName(file_path), file_path,
               language, {}, 0, 0)

\* The file node each extractor appends first: CodeNode(id=make_node_id('file',
\* file_path), kind='file', name=os.path.basename(file_path), hash=file_hash).
FileNode(file_path, language, file_hash) ==
    CodeNodeAt(make_node_id("file", file_path, ""), "file", BaseName(file_path), file_path,
               language, {file_hash}, 0, 0)

\* The concatenation of a sequence of sequences.
RECURSIVE Flatten(_)
Flatten(ss) == IF ss = <<>> THEN <<>> ELSE Head(ss) \o Flatten(Tail(ss))

\* nodes.extend(...), edges.extend(...): the nodes and edges of one loop after
\* those found before it.
Extend(graph, part) ==
    [nodes |-> graph.nodes \o part.nodes, edges |-> graph.edges \o part.edges]

\* ExtractionResult(nodes=nodes, edges=edges, file_path=file_path,
\* file_hash=file_hash, language=language, errors=[])
ResultOf(graph, file_path, file_hash, language) ==
    ExtractionResult(graph.nodes, graph.edges, file_path, file_hash, language, <<>>)

\* -------------------------------------------------- RegexExtractor.extract_java
\* iface.strip().split('<')[0].strip(): a supertype with its generic
\* arguments cut off at the first '<'.
StripGenerics(s) == Strip(Split(Strip(s), "<")[1])

\* for iface in clause.split(','): one edge per piece whose name is not empty,
\* from the type to f"{target}.{name}".
SupertypeEdges(from_id, clause, target, kind, line_num) ==
    LET pieces == SelectSeq(Split(clause, ","), LAMBDA s : StripGenerics(s) # <<>>)
    IN IF clause = <<>> THEN <<>>
       ELSE [i \in 1..Len(pieces) |->
               CodeEdgeAt(from_id, BareId(target, Join(StripGenerics(pieces[i]))), kind,
                          line_num, ConfidenceUnresolved)]

\* QualifiedName stamped with the point the caller has reached.
QualifiedNameStamped(package_name, name) == name \o "@" \o pc

\* f"{package_name}.{name}" if package_name else name
QualifiedName(package_name, name) ==
    IF package_name # "" THEN package_name \o "." \o name ELSE name

\* if class_stack and line_num < class_stack[-1][2]
IsInnerClass(class_stack, line_num) ==
    class_stack # <<>> /\ line_num < class_stack[Len(class_stack)].line_end

\* while class_stack and line_num >= class_stack[-1][2]: class_stack.pop()
RECURSIVE PopExpired(_, _)
PopExpired(class_stack, line_num) ==
    IF class_stack # <<>> /\ line_num >= class_stack[Len(class_stack)].line_end
    THEN PopExpired(SubSeq(class_stack, 1, Len(class_stack) - 1), line_num)
    ELSE class_stack

\* The loop over the class matches ms, from the accumulated nodes, edges and
\* class_stack of acc.
RECURSIVE JavaClasses(_, _, _, _, _, _)
JavaClasses(ms, c, lines, file_path, package_name, acc) ==
    IF ms = <<>> THEN acc
    ELSE LET match == Head(ms)
             name == Join(match.g1)
             line_num == LineOf(c, match.start)
             line_end == find_java_block_end(lines, line_num - 1)
             class_id == make_node_id("class", file_path, QualifiedName(package_name, name))
             class_node == CodeNodeAt(class_id, "class", name, file_path, "java", {},
                                      line_num, line_end)
             parent == IF IsInnerClass(acc.class_stack, line_num)
                       THEN CodeEdgeAt(acc.class_stack[Len(acc.class_stack)].id, class_id,
                                       "contains", line_num, ConfidenceDefault)
                       ELSE CodeEdgeAt(make_node_id("file", file_path, ""), class_id,
                                       "defines", 0, ConfidenceDefault)
             extends == IF match.g2 = <<>> THEN <<>>
                        ELSE <<CodeEdgeAt(class_id,
                                   BareId("class", Join(StripGenerics(match.g2))),
                                   "extends", line_num, ConfidenceUnresolved)>>
             implements == SupertypeEdges(class_id, match.g3, "interface", "implements",
                                          line_num)
         IN JavaClasses(Tail(ms), c, lines, file_path, package_name,
                [nodes |-> Append(acc.nodes, class_node),
                 edges |-> acc.edges \o <<parent>> \o extends \o implements,
                 class_stack |-> Append(PopExpired(acc.class_stack, line_num),
                                        [name |-> name, id |-> class_id,
                                         line_end |-> line_end])])

\* The loops over the interface, enum and annotation matches: one node per
\* match, a 'defines' edge from the file node, and the supertype edges of the
\* clause in group 2.
JavaTypes(kind, ms, c, lines, file_path, package_name, clause_kind) ==
    LET line_num(i) == LineOf(c, ms[i].start)
        id(i) == make_node_id(kind, file_path, QualifiedName(package_name, Join(ms[i].g1)))
    IN [nodes |-> [i \in 1..Len(ms) |->
                      CodeNodeAt(id(i), kind, Join(ms[i].g1), file_path, "java", {},
                                 line_num(i), find_java_block_end(lines, line_num(i) - 1))],
        edges |-> Flatten([i \in 1..Len(ms) |->
                      <<CodeEdgeAt(make_node_id("file", file_path, ""), id(i), "defines",
                                   0, ConfidenceDefault)>>
                      \o SupertypeEdges(id(i), ms[i].g2, "interface", clause_kind,
                                        line_num(i))])]

\* IsConstructor that never holds: no match is taken for a constructor.
IsConstructorNever(type_names, name, return_type) == FALSE

\* if name in type_names and return_type == name: continue
IsConstructor(type_names, name, return_type) ==
    name \in type_names /\ return_type = name

\* if return_type in ('throw', 'return', 'new', 'if', 'for', 'while', 'switch')
NotAMethod(return_type) ==
    return_type \in {"throw", "return", "new", "if", "for", "while", "switch"}

TypeKinds == {"class", "interface", "enum", "annotation"}

\* ContainingClass naming the enclosing types by f"class.{type_name}" instead
\* of by their ids.
ContainingClassByName(type_nodes, line_num) ==
    { BareId("class", type_nodes[i].name) : i \in { k \in 1..Len(type_nodes) :
          type_nodes[k].line_start < line_num /\ line_num < type_nodes[k].line_end } }

\* for ... in reversed(type_ranges): if type_start < line_num < type_end:
\* the last range, in the stable order by line_start, around the line; as a
\* set of at most one id (empty: None).
ContainingClass(type_nodes, line_num) ==
    LET inside == { i \in 1..Len(type_nodes) :
                      type_nodes[i].line_start < line_num /\ line_num < type_nodes[i].line_end }
        last == { i \in inside : \A j \in inside :
                      \/ type_nodes[j].line_start < type_nodes[i].line_start
                      \/ (type_nodes[j].line_start = type_nodes[i].line_start /\ j <= i) }
    IN { type_nodes[i].id : i \in last }

\* The loop over the method matches, given the nodes found before it.
JavaMethods(ms, c, lines, file_path, nodes) ==
    LET type_nodes == SelectSeq(nodes, LAMBDA n : n.kind \in TypeKinds)
        type_names == { type_nodes[i].name : i \in 1..Len(type_nodes) }
        kept == SelectSeq(ms, LAMBDA m :
                    /\ ~IsConstructor(type_names, Join(m.g2), Join(Strip(m.g1)))
                    /\ ~NotAMethod(Join(Strip(m.g1))))
        line_num(i) == LineOf(c, kept[i].start)
        id(i) == make_node_id("function", file_path, Join(kept[i].g2))
        containing_class(i) == ContainingClass(type_nodes, line_num(i))
    IN [nodes |-> [i \in 1..Len(kept) |->
                      CodeNodeAt(id(i), "function", Join(kept[i].g2), file_path, "java",
                                 {}, line_num(i),
                                 find_java_block_end(lines, line_num(i) - 1))],
        edges |-> [i \in 1..Len(kept) |->
                      IF containing_class(i) # {}
                      THEN CodeEdgeAt(CHOOSE t \in containing_class(i) : TRUE, id(i),
                                      "contains", line_num(i), ConfidenceDefault)
                      ELSE CodeEdgeAt(make_node_id("file", file_path, ""), id(i),
                                      "defines", 0, ConfidenceDefault)]]

\* for match in JAVA_PATTERNS['import'].finditer(content): an 'imports' edge
\* from the file to the package of a wildcard import, or to the class.
JavaImports(ms, c, file_path) ==
    [i \in 1..Len(ms) |->
        LET import_path == ms[i].g1
            n == Len(import_path)
        IN CodeEdgeAt(make_node_id("file", file_path, ""),
               IF n >= 2 /\ import_path[n - 1] = "." /\ import_path[n] = "*"
               THEN BareId("package", Join(SubSeq(import_path, 1, n - 2)))
               ELSE BareId("class", Join(import_path)),
               "imports", LineOf(c, ms[i].start), ConfidenceDefault)]

\* for match in JAVA_PATTERNS['constant'].finditer(content): a node per
\* constant and a 'defines' edge from the file node.
JavaConstants(ms, c, file_path) ==
    [nodes |-> [i \in 1..Len(ms) |->
                   CodeNodeAt(make_node_id("constant", file_path, Join(ms[i].g2)), "constant",
                              Join(ms[i].g2), file_path, "java", {},
                              LineOf(c, ms[i].start), LineOf(c, ms[i].start))],
     edges |-> [i \in 1..Len(ms) |->
                   CodeEdgeAt(make_node_id("file", file_path, ""),
                              make_node_id("constant", file_path, Join(ms[i].g2)),
                              "defines", 0, ConfidenceDefault)]]

\* package_match = JAVA_PATTERNS['package'].search(content); its group 1, ""
\* without a match.
PackageName(ms) == IF ms = <<>> THEN "" ELSE Join(ms[1].g1)

\* The method loop, appended to the nodes and edges found before it.
WithMethods(graph, ms, c, lines, file_path) ==
    Extend(graph, JavaMethods(ms, c, lines, file_path, graph.nodes))

\* The loops of extract_java, in their order, over the text c without its
\* comments.
JavaGraph(c, lines, file_path, file_hash, package_name) ==
    Extend(
        WithMethods(
            Extend(Extend(Extend(
                JavaClasses(finditer([q \in 1..Len(c) |-> JAVA_class(c, q)], c, 1), c, lines,
                            file_path, package_name,
                            [nodes |-> <<FileNode(file_path, "java", file_hash)>>,
                             edges |-> JavaImports(
                                 finditer([q \in 1..Len(c) |-> JAVA_import(c, q)], c, 1),
                                 c, file_path),
                             class_stack |-> <<>>]),
                JavaTypes("interface",
                          finditer([q \in 1..Len(c) |-> JAVA_interface(c, q)], c, 1),
                          c, lines, file_path, package_name, "extends")),
                JavaTypes("enum", finditer([q \in 1..Len(c) |-> JAVA_enum(c, q)], c, 1),
                          c, lines, file_path, package_name, "implements")),
                JavaTypes("annotation",
                          finditer([q \in 1..Len(c) |-> JAVA_annotation(c, q)], c, 1),
                          c, lines, file_path, package_name, "none")),
            finditer([q \in 1..Len(c) |-> JAVA_method(c, q)], c, 1), c, lines, file_path),
        JavaConstants(finditer([q \in 1..Len(c) |-> JAVA_constant(c, q)], c, 1), c,
                      file_path))

\* The graph of the text with its comments removed.
JavaGraphOf(c, file_path, file_hash) ==
    JavaGraph(c, Split(c, "\n"), file_path, file_hash,
              PackageName(finditer([q \in 1..Len(c) |-> JAVA_package(c, q)], c, 1)))

\* RegexExtractor.extract_java(content, file_path), on the text of the file.
RegexExtractor_extract_java(content, file_path) ==
    ResultOf(JavaGraphOf(remove_java_comments(content), file_path, MD5(content)),
             file_path, MD5(content), "java")

\* ------------------------------------------- RegexExtractor.extract_typescript
\* The inner loop of _find_block_end over the characters of one line.
RECURSIVE LineScan(_, _, _)
LineScan(line, j, st) ==
    IF j > Len(line) THEN st
    ELSE IF line[j] = "{" THEN
        LineScan(line, j + 1, [st EXCEPT !.brace_count = @ + 1, !.started = TRUE])
    ELSE IF line[j] = "}" THEN
        IF st.started /\ st.brace_count - 1 = 0 THEN [st EXCEPT !.closed = TRUE]
        ELSE LineScan(line, j + 1, [st EXCEPT !.brace_count = @ - 1])
    ELSE LineScan(line, j + 1, st)

\* The outer loop, from line i (counted from 1).
RECURSIVE BlockScan(_, _, _)
BlockScan(lines, i, st) ==
    IF i > Len(lines) THEN Len(lines)
    ELSE IF LineScan(lines[i], 1, st).closed THEN i
    ELSE BlockScan(lines, i + 1, LineScan(lines[i], 1, st))

\* RegexExtractor._find_block_end(lines, start_line): start_line counts from 0.
find_block_end(lines, start_line) ==
    BlockScan(lines, start_line + 1,
        [brace_count |-> 0, started |-> FALSE, closed |-> FALSE])

\* One loop of extract_typescript over the matches ms of a pattern: a node of
\* the kind per match and a 'defines' edge from the file node; line_end is the
\* end of the block, or the line itself for a type alias.
TsDeclarations(kind, ms, c, lines, file_path) ==
    LET line_num(i) == LineOf(c, ms[i].start)
        id(i) == make_node_id(kind, file_path, Join(ms[i].g1))
    IN [nodes |-> [i \in 1..Len(ms) |->
                      CodeNodeAt(id(i), kind, Join(ms[i].g1), file_path, "typescript", {},
                                 line_num(i),
                                 IF kind = "type" THEN line_num(i)
                                 ELSE find_block_end(lines, line_num(i) - 1))],
        edges |-> [i \in 1..Len(ms) |->
                      CodeEdgeAt(make_node_id("file", file_path, ""), id(i), "defines", 0,
                                 ConfidenceDefault)]]

\* for iface in implements.split(','): iface.strip(), kept when not empty.
TsImplements(from_id, clause, line_num) ==
    LET pieces == SelectSeq(Split(clause, ","), LAMBDA s : Strip(s) # <<>>)
    IN IF clause = <<>> THEN <<>>
       ELSE [i \in 1..Len(pieces) |->
               CodeEdgeAt(from_id, BareId("interface", Join(Strip(pieces[i]))),
                          "implements", line_num, ConfidenceUnresolved)]

\* The loop over the class matches of extract_typescript.
TsClasses(ms, c, lines, file_path) ==
    LET line_num(i) == LineOf(c, ms[i].start)
        id(i) == make_node_id("class", file_path, Join(ms[i].g1))
    IN [nodes |-> TsDeclarations("class", ms, c, lines, file_path).nodes,
        edges |-> Flatten([i \in 1..Len(ms) |->
                      <<CodeEdgeAt(make_node_id("file", file_path, ""), id(i), "defines", 0,
                                   ConfidenceDefault)>>
                      \o (IF ms[i].g2 = <<>> THEN <<>>
                          ELSE <<CodeEdgeAt(id(i), BareId("class", Join(ms[i].g2)),
                                            "extends", line_num(i), ConfidenceUnresolved)>>)
                      \o TsImplements(id(i), ms[i].g3, line_num(i))])]

\* for match in TS_PATTERNS['import'].finditer(content): an 'imports' edge to
\* the module.
TsImports(ms, c, file_path) ==
    [i \in 1..Len(ms) |->
        CodeEdgeAt(make_node_id("file", file_path, ""), BareId("module", Join(ms[i].g1)),
                   "imports", LineOf(c, ms[i].start), ConfidenceDefault)]

\* The loops of extract_typescript, in their order.
TsGraph(c, lines, file_path, file_hash) ==
    Extend(Extend(Extend(Extend(Extend(
        [nodes |-> <<FileNode(file_path, "typescript", file_hash)>>,
         edges |-> TsImports(finditer([q \in 1..Len(c) |-> TS_import(c, q)], c, 1), c,
                             file_path)],
        TsDeclarations("function",
                       finditer([q \in 1..Len(c) |-> TS_export_function(c, q)], c, 1),
                       c, lines, file_path)),
        TsDeclarations("function",
                       finditer([q \in 1..Len(c) |-> TS_export_const_arrow(c, q)], c, 1),
                       c, lines, file_path)),
        TsClasses(finditer([q \in 1..Len(c) |-> TS_class(c, q)], c, 1), c, lines,
                  file_path)),
        TsDeclarations("interface",
                       finditer([q \in 1..Len(c) |-> TS_interface(c, q)], c, 1),
                       c, lines, file_path)),
        TsDeclarations("type", finditer([q \in 1..Len(c) |-> TS_type(c, q)], c, 1),
                       c, lines, file_path))

\* RegexExtractor.extract_typescript(content, file_path), on the text of the
\* file.
RegexExtractor_extract_typescript(content, file_path) ==
    ResultOf(TsGraph(content, Split(content, "\n"), file_path, MD5(content)),
             file_path, MD5(content), "typescript")

\* ----------------------------------------------- RegexExtractor.extract_python
\* len(line) - len(line.lstrip())
Indent(line) == Ws0(line, 1) - 1

\* The loop of _find_python_block_end over the lines after the first, i
\* counted from 1.
RECURSIVE PythonBlockScan(_, _, _)
PythonBlockScan(lines, i, start_indent) ==
    IF i > Len(lines) THEN Len(lines)
    ELSE IF Strip(lines[i]) = <<>> \/ Head(Strip(lines[i])) = "#" THEN
        PythonBlockScan(lines, i + 1, start_indent)
    ELSE IF Indent(lines[i]) <= start_indent THEN i - 1
    ELSE PythonBlockScan(lines, i + 1, start_indent)

\* RegexExtractor._find_python_block_end(lines, start_line): start_line counts
\* from 0; the line returned is the 0-based index of the first line that is
\* indented no deeper.
find_python_block_end(lines, start_line) ==
    IF start_line >= Len(lines) THEN start_line + 1
    ELSE PythonBlockScan(lines, start_line + 2, Indent(lines[start_line + 1]))

\* One loop of extract_python over the matches ms of a pattern.
PyDeclarations(kind, ms, c, lines, file_path) ==
    LET line_num(i) == LineOf(c, ms[i].start)
        id(i) == make_node_id(kind, file_path, Join(ms[i].g1))
    IN [nodes |-> [i \in 1..Len(ms) |->
                      CodeNodeAt(id(i), kind, Join(ms[i].g1), file_path, "python", {},
                                 line_num(i),
                                 IF kind = "constant" THEN line_num(i)
                                 ELSE find_python_block_end(lines, line_num(i) - 1))],
        edges |-> [i \in 1..Len(ms) |->
                      CodeEdgeAt(make_node_id("file", file_path, ""), id(i), "defines", 0,
                                 ConfidenceDefault)]]

\* for base in bases.split(','): base.strip(), kept when it is neither empty
\* nor 'object'.
PyBases(from_id, bases, line_num) ==
    LET pieces == SelectSeq(Split(bases, ","),
                            LAMBDA s : Strip(s) # <<>> /\ Strip(s) # <<"object">>)
    IN IF bases = <<>> THEN <<>>
       ELSE [i \in 1..Len(pieces) |->
               CodeEdgeAt(from_id, BareId("class", Join(Strip(pieces[i]))), "extends",
                          line_num, ConfidenceUnresolved)]

\* imports.split(',')[0].strip().split(): the words of the first name of an
\* import list; [0] of it raises IndexError when there is none.
FirstImported(imports) == Split(Strip(Split(imports, ",")[1]), " ")

\* for match in PY_PATTERNS['import'].finditer(content): an 'imports' edge to
\* the module of a from-import, or to the first name imported.
PyImports(ms, c, file_path) ==
    [i \in 1..Len(ms) |->
        CodeEdgeAt(make_node_id("file", file_path, ""),
                   BareId("module", IF ms[i].g1 # <<>> THEN Join(ms[i].g1)
                                    ELSE Join(FirstImported(ms[i].g2)[1])),
                   "imports", LineOf(c, ms[i].start), ConfidenceDefault)]

\* The loop over the class matches of extract_python.
PyClasses(ms, c, lines, file_path) ==
    [nodes |-> PyDeclarations("class", ms, c, lines, file_path).nodes,
     edges |-> Flatten([i \in 1..Len(ms) |->
                   <<CodeEdgeAt(make_node_id("file", file_path, ""),
                                make_node_id("class", file_path, Join(ms[i].g1)),
                                "defines", 0, ConfidenceDefault)>>
                   \o PyBases(make_node_id("class", file_path, Join(ms[i].g1)), ms[i].g2,
                              LineOf(c, ms[i].start))])]

\* The loops of extract_python, in their order, given the import matches.
PyGraph(imports, c, lines, file_path, file_hash) ==
    Extend(Extend(Extend(
        [nodes |-> <<FileNode(file_path, "python", file_hash)>>,
         edges |-> PyImports(imports, c, file_path)],
        PyDeclarations("function", finditer([q \in 1..Len(c) |-> PY_function(c, q)], c, 1),
                       c, lines, file_path)),
        PyClasses(finditer([q \in 1..Len(c) |-> PY_class(c, q)], c, 1), c, lines,
                  file_path)),
        PyDeclarations("constant", finditer([q \in 1..Len(c) |-> PY_const(c, q)], c, 1),
                       c, lines, file_path))

\* The import loop comes first: the IndexError of an import without a name
\* leaves the extractor before it returns anything.
PyOutcome(imports, c, file_path, file_hash) ==
    IF \E i \in 1..Len(imports) :
           imports[i].g1 = <<>> /\ FirstImported(imports[i].g2) = <<<<>>>>
    THEN Raised("IndexError",
                ExtractionResult(<<>>, <<>>, file_path, file_hash, "python", <<>>))
    ELSE Returned(ResultOf(PyGraph(imports, c, Split(c, "\n"), file_path, file_hash),
                           file_path, file_hash, "python"))

\* RegexExtractor.extract_python(content, file_path), on the text of the file.
RegexExtractor_extract_python(content, file_path) ==
    PyOutcome(finditer([q \in 1..Len(content) |-> PY_import(content, q)], content, 1),
              content, file_path, MD5(content))

\* ------------------------------------------------------- extraction of a text
\* A text has at most MaxLines lines.
MaxLines == 4

\* The lines the explored texts are made of, per language.
JavaLines ==
    { <<"class", " ", "A", " ", "{">>,
      <<"class", " ", "B", " ", "extends", " ", "A", " ", "{", " ", "}">>,
      <<"class", " ", "C", " ", "implements", " ", "M", "<", "K", ",", " ", "V", ">", ",",
        " ", "R", " ", "{">>,
      <<"interface", " ", "I", " ", "extends", " ", "J", "<", "K", ">", ",", " ", "R", " ",
        "{">>,
      <<"}">>,
      <<"void", " ", "f", "(", ")", ";">>,
      <<"A", " ", "A", "(", ")", ";">>,
      <<"return", " ", "f", "(", ")", ";">> }

TypeScriptLines ==
    { <<"import", " ", "x", " ", "from", " ", "'", "m", "'">>,
      <<"export", " ", "function", " ", "f", "(", ")", " ", "{">>,
      <<"export", " ", "class", " ", "A", " ", "extends", " ", "B", " ", "implements", " ",
        "I", "<", "K", ">", ",", " ", "R", " ", "{">>,
      <<"interface", " ", "I", " ", "extends", " ", "J", ",", " ", "R", " ", "{">>,
      <<"}">> }

PythonLines ==
    { <<"import", " ", "os">>,
      <<"def", " ", "f", "(", ")", ":">>,
      <<"class", " ", "A", "(", "B", ",", " ", "object", ")", ":">>,
      <<" ", "pass">>,
      <<"X", " ", "=", " ", "1">>,
      <<"import", " ", " ">> }

LinesOf(language) ==
    CASE language = "java" -> JavaLines
      [] language = "typescript" -> TypeScriptLines
      [] OTHER -> PythonLines

\* '\n'.join(lines)
RECURSIVE JoinLines(_)
JoinLines(ls) ==
    IF ls = <<>> THEN <<>>
    ELSE IF Len(ls) = 1 THEN ls[1]
    ELSE ls[1] \o <<"\n">> \o JoinLines(Tail(ls))

Texts(language) ==
    { JoinLines(ls) : ls \in UNION { [1..n -> LinesOf(language)] : n \in 0..MaxLines } }

\* The file that holds the text, and a copy of it in a sub-directory.
SourcePath(language) ==
    Path(<<>>, "U", CASE language = "java" -> ".java"
                      [] language = "typescript" -> ".ts"
                      [] OTHER -> ".py")
CopyPath(language) == [SourcePath(language) EXCEPT !.dirs = <<"sub">>]

\* The dispatch of extract_from_file on the language, given the text read.
RegexExtract(language, text, file_path) ==
    CASE language = "java" -> Returned(RegexExtractor_extract_java(text, file_path))
      [] language = "typescript" -> Returned(RegexExtractor_extract_typescript(text, file_path))
      [] OTHER -> RegexExtractor_extract_python(text, file_path)

\* A direct call of the extractor of the text's language.
ExtractText ==
    /\ pc = "idle"
    /\ srcLang # ""
    /\ pc' = "extracted"
    /\ extraction' = {RegexExtract(srcLang, srcText, JoinPath(directory, SourcePath(srcLang)))}
    /\ queue' = <<SourcePath(srcLang), CopyPath(srcLang)>>
    /\ UNCHANGED <<dirExists, fs, heap, argNone, directory, incremental, order, new_hashes,
                   all_nodes, all_edges, errors, files_processed, files_skipped,
                   exception, invoked, skipped, first, fileResult, snapshot, edits, chained, store,
                   srcText, srcLang, repeated>>

\* What the loop body of extract_from_directory does with the outcome r of
\* extract_from_file for the file at the head of the queue: an exception of
\* the extractor leaves the walk; a result without errors is appended,
\* all_nodes.extend(...), all_edges.extend(...), new_hashes[rel_path] =
\* result.file_hash, files_processed += 1.
Gather(r) ==
    IF r.exc # "" THEN
        /\ pc' = "raised"
        /\ exception' = r.exc
        /\ UNCHANGED <<all_nodes, all_edges, heap, files_processed, invoked, queue>>
    ELSE
        /\ pc' = "collected"
        /\ all_nodes' = all_nodes \o r.value.nodes
        /\ all_edges' = all_edges \o r.value.edges
        /\ heap' = [heap EXCEPT ![new_hashes] =
                       RecordHash(@, Head(queue), r.value.file_hash)]
        /\ files_processed' = files_processed + 1
        /\ invoked' = invoked \cup {Head(queue)}
        /\ queue' = Tail(queue)
        /\ UNCHANGED exception

\* The walk reaches a file that holds the text.
Collect ==
    /\ pc \in {"extracted", "collected"}
    /\ queue # <<>>
    /\ Gather(RegexExtract(srcLang, srcText, JoinPath(directory, Head(queue))))
    /\ UNCHANGED <<dirExists, fs, argNone, directory, incremental, order, new_hashes,
                   errors, files_skipped, skipped, first, fileResult, snapshot,
                   edits, chained, store, srcText, srcLang, extraction, repeated>>

\* The extractor is called once more on the same text and path, after the
\* walk over the files that hold the text has ended.
ExtractAgain ==
    /\ pc \in {"collected", "raised"}
    /\ pc = "collected" => queue = <<>>
    /\ pc' = "repeated"
    /\ repeated' = {RegexExtract(srcLang, srcText, JoinPath(directory, SourcePath(srcLang)))}
    /\ UNCHANGED <<dirExists, fs, heap, argNone, directory, incremental, queue, order,
                   new_hashes, all_nodes, all_edges, errors, files_processed, files_skipped,
                   exception, invoked, skipped, first, fileResult, snapshot, edits, chained, store,
                   srcText, srcLang, extraction>>

\* Any text of any of the three languages.
InitText ==
    /\ Quiet
    /\ fs = [p \in Paths |-> Absent]
    /\ dirExists = TRUE
    /\ argNone = TRUE
    /\ heap = [caller |-> EmptyDict, local |-> EmptyDict]
    /\ snapshot = fs
    /\ srcLang \in {"java", "typescript", "python"}
    /\ srcText \in Texts(srcLang)

NextText ==
    \/ ExtractText
    \/ Collect
    \/ ExtractAgain

SpecText == InitText /\ [][NextText]_vars

\* ------------------------------------- texts with literals and comments
\* The lines of the Java and TypeScript texts explored for the line spans:
\* declarations with a body, literals that hold braces, quotes and comment
\* markers, comments, and a package declaration.
JavaSourceLines ==
    { <<"class", " ", "A", " ", "{">>,
      <<"}">>,
      <<"void", " ", "f", "(", ")", " ", "{">>,
      <<"a", "(", "\"", "\\", "\"", "{", "\"", ",", " ", "'", "}", "'", ")", ";">>,
      <<"s", " ", "=", " ", "\"", "//", "{", "\"", ";">>,
      <<"//", " ", "{">>,
      <<"/*">>,
      <<"*/">>,
      <<"package", " ", "p", ";">> }

TypeScriptSourceLines ==
    { <<"export", " ", "function", " ", "f", "(", ")", " ", "{">>,
      <<"interface", " ", "I", " ", "{">>,
      <<"s", " ", "=", " ", "\"", "{", "\"", ";">>,
      <<"}">> }

SourceLinesOf(language) ==
    IF language = "java" THEN JavaSourceLines ELSE TypeScriptSourceLines

SourceTexts(language) ==
    { JoinLines(ls) : ls \in UNION { [1..n -> SourceLinesOf(language)] : n \in 0..MaxLines } }

\* Any such text, handed to the extractor of its language.
InitSource ==
    /\ Quiet
    /\ fs = [p \in Paths |-> Absent]
    /\ dirExists = TRUE
    /\ argNone = TRUE
    /\ heap = [caller |-> EmptyDict, local |-> EmptyDict]
    /\ snapshot = fs
    /\ srcLang \in {"java", "typescript"}
    /\ srcText \in SourceTexts(srcLang)

SpecSource == InitSource /\ [][NextText]_vars

\* ------------------------------------------ the block-end resolvers alone
\* The lines the two bracket-counting resolvers are run on: an opening brace,
\* a closing brace, a closing brace before an opening one, and no brace.
BracketLines ==
    { <<"{">>, <<"}">>, <<"}", " ", "else", " ", "{">>, <<"x">> }

BracketTexts ==
    { JoinLines(ls) : ls \in UNION { [1..n -> BracketLines] : n \in 0..MaxLines } }

\* The resolver each extractor calls: _find_java_block_end for Java,
\* _find_block_end for TypeScript and JavaScript.
BlockEnd(language, lines, start_line) ==
    IF language = "java" THEN find_java_block_end(lines, start_line)
    ELSE find_block_end(lines, start_line)

\* A call of the resolver of srcLang on the lines of the text, content.split('\n'),
\* from the line start_line (counted from 0).
Resolve(start_line) ==
    /\ pc = "idle"
    /\ srcLang # ""
    /\ start_line < Len(Split(srcText, "\n"))
    /\ pc' = "resolved"
    /\ extraction' = {[start_line |-> start_line,
                       line_end |-> BlockEnd(srcLang, Split(srcText, "\n"), start_line)]}
    /\ UNCHANGED <<dirExists, fs, heap, argNone, directory, incremental, queue, order,
                   new_hashes, all_nodes, all_edges, errors, files_processed, files_skipped,
                   exception, invoked, skipped, first, fileResult, snapshot, edits, chained, store,
                   srcText, srcLang, repeated>>

InitBlock ==
    /\ Quiet
    /\ fs = [p \in Paths |-> Absent]
    /\ dirExists = TRUE
    /\ argNone = TRUE
    /\ heap = [caller |-> EmptyDict, local |-> EmptyDict]
    /\ snapshot = fs
    /\ srcLang \in {"java", "typescript"}
    /\ srcText \in BracketTexts

NextBlock == \E start_line \in 0..(MaxLines - 1) : Resolve(start_line)

SpecBlock == InitBlock /\ [][NextBlock]_vars

\* ===================================================================== claims
\* The files with an extension of the supported set, spelled out.
Supported(p) == p.ext \in {".py", ".PY", ".java", ".JAVA", ".go", ".js", ".jsx", ".ts", ".tsx"}

\* The table the caller supplied to the running call.
Supplied == IF argNone THEN EmptyDict ELSE heap.caller

\* File p is readable, the table has an entry for p, and the entry is the
\* checksum of p's current content.
Unchanged(p) ==
    /\ fs[p].kind = "file"
    /\ p \in DOMAIN Supplied
    /\ Supplied[p] = MD5(fs[p].bytes)

\* The positions of the returned nodes and edges that belong to file p.
NodesOf(p) == { i \in 1..Len(all_nodes) : all_nodes[i].file_path.rel = p }
EdgesOf(p) == { i \in 1..Len(all_edges) : all_edges[i].from_id.file_path.rel = p }

\* The files the running walk has handled so far.
Visited == { order[i] : i \in 1..(Len(order) - Len(queue)) }

\* C1: at every point of an incremental sync, files_skipped is the number of
\* supported files handled so far whose table entry equals their current
\* checksum (each counted once, and nothing else counted); extract_from_file
\* is never called on such a file and the batch holds no node and no edge of
\* it; a sync that returns has handled every listed file.
C1_UnchangedFilesSkipped ==
    (pc \in {"walking", "returned", "raised"} /\ dirExists /\ incremental) =>
        LET M == { p \in Listed(fs) : Supported(p) /\ Unchanged(p) }
        IN /\ files_skipped = Cardinality(M \cap Visited)
           /\ skipped = M \cap Visited
           /\ \A p \in M : p \notin invoked /\ NodesOf(p) = {} /\ EdgesOf(p) = {}
           /\ pc = "returned" => Visited = Listed(fs)

C1_Witness ==
    /\ pc = "returned"
    /\ incremental
    /\ files_skipped = 1
    /\ files_processed = 1
    /\ \E p \in Listed(fs) : Unchanged(p) /\ p \in skipped

\* C3: every file counted as skipped is in the returned table under its
\* relative path, with the checksum the supplied table held for it.
C3_SkippedHashCarriedForward ==
    (pc \in {"walking", "returned"}) =>
        \A p \in skipped :
            /\ p \in DOMAIN Supplied
            /\ p \in DOMAIN ReturnedHashes
            /\ ReturnedHashes[p] = Supplied[p]

C3_Witness ==
    /\ pc = "returned"
    /\ \E p \in skipped : ReturnedHashes[p] = Supplied[p] /\ fs[p].bytes = <<66, 195, 169>>

\* The batch a walk in the order q builds when it calls extract_from_file on
\* every supported file and consults no table.
RECURSIVE FullWalk(_, _, _)
FullWalk(q, dir, acc) ==
    IF q = <<>> THEN acc
    ELSE LET p == Head(q)
             r == extract_from_file(JoinPath(dir, p), fs[p]).value
         IN IF ~Supported(p) THEN FullWalk(Tail(q), dir, acc)
            ELSE IF r.errors # <<>> THEN
                FullWalk(Tail(q), dir, [acc EXCEPT !.errors = @ \o r.errors])
            ELSE FullWalk(Tail(q), dir,
                     [nodes |-> acc.nodes \o r.nodes,
                      edges |-> acc.edges \o r.edges,
                      files_processed |-> acc.files_processed + 1,
                      files_skipped |-> 0,
                      errors |-> acc.errors,
                      file_hashes |-> Put(acc.file_hashes, p, r.file_hash)])

EmptyBatch ==
    [nodes |-> <<>>, edges |-> <<>>, files_processed |-> 0, files_skipped |-> 0,
     errors |-> <<>>, file_hashes |-> EmptyDict]

\* C4: a full sync that returns has skipped nothing, has called
\* extract_from_file on every walked supported file, and its result is the
\* batch FullWalk builds from the directory alone, whatever table was supplied.
C4_FullModeIgnoresTable ==
    (pc = "returned" /\ dirExists /\ ~incremental) =>
        /\ files_skipped = 0
        /\ skipped = {}
        /\ invoked = { p \in Listed(fs) : Supported(p) }
        /\ Result = FullWalk(order, directory, EmptyBatch)

C4_Witness ==
    /\ pc = "returned"
    /\ ~incremental
    /\ files_processed >= 1
    /\ \E p \in Listed(fs) : Supported(p) /\ Unchanged(p) /\ p \in invoked

\* C5: no call of extract_from_directory is left by an exception, and a call
\* that returns has handled every walked supported file.
C5_WalkNeverAborts ==
    /\ pc # "raised"
    /\ (pc = "returned" /\ dirExists) =>
           \A p \in Listed(fs) : Supported(p) => p \in invoked \cup skipped

\* C6: when the directory does not exist the call returns, without raising,
\* the empty batch with exactly one error string.
C6_MissingDirectory ==
    ~dirExists =>
        /\ pc # "raised"
        /\ pc = "returned" =>
               /\ Result = [EmptyBatch EXCEPT !.errors = errors]
               /\ Len(errors) = 1
               /\ errors[1].prefix = "Directory not found"

C6_Witness == pc = "returned" /\ ~dirExists /\ Len(errors) = 1

\* The bytes of the entry are not text.
Undecodable(entry) == entry.kind = "file" /\ ~Decode(entry.bytes)[1]

\* C7: a direct extract_from_file call on a path that does not exist, has an
\* unsupported extension or holds undecodable content returns, without
\* raising, a result with no node, no edge and exactly one error: "File not
\* found" whenever the path does not exist (whatever its extension), else
\* "Unsupported file type", else "Failed to read file".
C7_FileFailureCases ==
    (pc = "file_done") =>
        \A r \in fileResult :
            LET p == r.value.file_path.rel
                missing == fs[p].kind \in {"absent", "dangling"}
                failing == missing \/ ~Supported(p) \/ Undecodable(fs[p])
            IN failing =>
                /\ r.exc = ""
                /\ r.value.nodes = <<>>
                /\ r.value.edges = <<>>
                /\ Len(r.value.errors) = 1
                /\ r.value.errors[1].prefix =
                       IF missing THEN "File not found"
                       ELSE IF ~Supported(p) THEN "Unsupported file type"
                       ELSE "Failed to read file"

C7_Witness ==
    /\ pc = "file_done"
    /\ \E r \in fileResult :
           /\ ~Supported(r.value.file_path.rel)
           /\ fs[r.value.file_path.rel].kind = "absent"
           /\ r.value.errors[1].prefix = "File not found"

\* C8: extract_from_file on an existing, decodable file with a supported
\* extension returns no error and at least one node, and a walk that calls
\* it on such a file emits the file's nodes instead of an error.
C8_EverySupportedExtensionExtracts ==
    /\ (pc = "file_done") =>
           \A r \in fileResult :
               LET p == r.value.file_path.rel
               IN (Supported(p) /\ fs[p].kind = "file" /\ ~Undecodable(fs[p])) =>
                      r.exc = "" /\ r.value.errors = <<>> /\ r.value.nodes # <<>>
    /\ (pc = "returned") =>
           \A p \in invoked :
               (fs[p].kind = "file" /\ ~Undecodable(fs[p])) => NodesOf(p) # {}

\* C9: the loop iteration for a file with an unsupported extension changes
\* nothing of the result: nodes, edges, errors, both counters and both
\* tables stay as they are, and the file is neither hashed nor extracted.
C9_UnsupportedContributesNothing ==
    [][ (pc = "walking" /\ queue # <<>> /\ ~Supported(Head(queue))) =>
            /\ pc' = "walking"
            /\ queue' = Tail(queue)
            /\ all_nodes' = all_nodes
            /\ all_edges' = all_edges
            /\ errors' = errors
            /\ files_processed' = files_processed
            /\ files_skipped' = files_skipped
            /\ heap' = heap
            /\ invoked' = invoked
            /\ skipped' = skipped ]_vars

C9_Witness ==
    /\ pc = "returned"
    /\ incremental
    /\ ~argNone
    /\ \E p \in Listed(fs) :
           /\ ~Supported(p)
           /\ p \in DOMAIN heap.caller
           /\ heap.caller[p] = MD5(fs[p].bytes)
           /\ p \notin DOMAIN ReturnedHashes
    /\ files_processed = 1

\* C10: no step of a call changes the table the caller supplied; the table a
\* call returns is another object than the caller's; and a call repeated with
\* the same arguments on the unchanged directory returns an equal result.
C10_TableReadOnlyAndNoState ==
    [][ (pc' \in {"walking", "returned", "raised"}) =>
            /\ heap'.caller = heap.caller
            /\ argNone' = argNone
            /\ (pc' = "returned" => new_hashes' # "caller")
            /\ (pc' = "returned" /\ first' # {} => first' = {Result'}) ]_vars

C10_Witness ==
    /\ pc = "returned"
    /\ first = {Result}
    /\ incremental
    /\ files_skipped = 1
    /\ files_processed = 1
    /\ heap.caller # EmptyDict

\* The content of file p differs from what it was when the supplied table
\* was returned.
ContentChanged(p) ==
    /\ snapshot[p].kind = "file"
    /\ fs[p].kind = "file"
    /\ snapshot[p].bytes # fs[p].bytes

\* C2: in a chain of incremental syncs, a supported file whose content changed
\* since the previous sync is not skipped by the next one: extract_from_file
\* is called on it and, its new content being text, its nodes are in the
\* result.
C2_ChangedFileReprocessed ==
    (pc \in {"returned", "raised"} /\ incremental /\ chained = "inc") =>
        \A p \in Listed(fs) :
            (Supported(p) /\ ContentChanged(p)) =>
                /\ p \notin skipped
                /\ p \in invoked
                /\ (pc = "returned" /\ ~Undecodable(fs[p])) => NodesOf(p) # {}

\* The outcome of the loop of extract_from_directory when os.walk yields the
\* files in the order q: the batch, with exc the exception that ends it early.
RECURSIVE WalkBatch(_, _, _, _, _)
WalkBatch(q, dir, inc, table, acc) ==
    IF q = <<>> \/ acc.exc # "" THEN acc
    ELSE LET p == Head(q)
             file_path == JoinPath(dir, p)
             rel_path == RelPath(file_path, dir)
             current == compute_file_hash(fs[p])
             r == extract_from_file(file_path, fs[p])
         IN IF ~SupportedExt(p) THEN WalkBatch(Tail(q), dir, inc, table, acc)
            ELSE IF ChecksHash(inc) /\ current.exc # "" THEN
                [acc EXCEPT !.exc = current.exc]
            ELSE IF ChecksHash(inc) /\ SkipTest(table, rel_path, current.value) THEN
                WalkBatch(Tail(q), dir, inc, table,
                    [acc EXCEPT !.files_skipped = @ + 1,
                                !.file_hashes = CarryForward(@, rel_path, current.value)])
            ELSE IF r.exc # "" THEN [acc EXCEPT !.exc = r.exc]
            ELSE IF r.value.errors # <<>> THEN
                WalkBatch(Tail(q), dir, inc, table,
                    [acc EXCEPT !.errors = @ \o r.value.errors])
            ELSE WalkBatch(Tail(q), dir, inc, table,
                    [acc EXCEPT !.nodes = @ \o r.value.nodes,
                                !.edges = @ \o r.value.edges,
                                !.files_processed = @ + 1,
                                !.file_hashes = RecordHash(@, rel_path, r.value.file_hash)])

\* What C11 compares of a batch: nodes and edges as sets, the two counters and
\* the returned table.
AsSets(b) ==
    [nodes |-> { b.nodes[i] : i \in 1..Len(b.nodes) },
     edges |-> { b.edges[i] : i \in 1..Len(b.edges) },
     files_processed |-> b.files_processed,
     files_skipped |-> b.files_skipped,
     file_hashes |-> b.file_hashes]

\* C11: whatever the order in which os.walk yields the files of a directory,
\* the call ends the same way (it returns, or it is left by an exception),
\* and when it returns, the set of nodes, the set of edges, files_processed,
\* files_skipped and the returned table are those of every other order.
C11_WalkOrderIndependent ==
    (pc \in {"returned", "raised"} /\ dirExists) =>
        \A q \in WalkOrders(fs) :
            LET b == WalkBatch(q, directory, incremental,
                               FileHashesOrEmpty(argNone, heap.caller),
                               [exc |-> ""] @@ EmptyBatch)
            IN /\ (b.exc # "") = (pc = "raised")
               /\ pc = "returned" => AsSets(b) = AsSets(Result)

\* Two files of the root directory were both extracted, so that the walk had
\* two orders for them, and the running walk took them in the order c.ts, a.py.
C11_Witness ==
    /\ pc = "returned"
    /\ files_processed = 2
    /\ Cardinality(WalkOrders(fs)) = 2
    /\ order[1].ext = ".ts"
    /\ Len(all_nodes) = 4

\* ------------------------------------------------------------------ C12
\* The ids of the nodes of a result, and the (from_id, to_id, kind) triples of
\* its edges, in their order.
NodeIds(nodes) == [i \in 1..Len(nodes) |-> nodes[i].id]
EdgeTriples(edges) ==
    [i \in 1..Len(edges) |-> <<edges[i].from_id, edges[i].to_id, edges[i].kind>>]

Unique(s) == \A i, j \in 1..Len(s) : s[i] = s[j] => i = j

\* C13: in every result an extractor returns, and in the nodes a walk has
\* gathered so far, no two nodes share an id.
C13_NodeIdsUnique ==
    /\ \A r \in extraction : r.exc = "" => Unique(NodeIds(r.value.nodes))
    /\ Unique(NodeIds(all_nodes))

\* ------------------------------------------------------------------ C14
\* Every edge of the list starts at the id of a node of the list.
FromIdsPresent(nodes, edges) ==
    \A i \in 1..Len(edges) : \E j \in 1..Len(nodes) : nodes[j].id = edges[i].from_id

\* C14: in every result an extractor returns, and in what a walk has gathered
\* so far, the from_id of every edge is the id of a node that is there too.
C14_EdgesStartAtNodes ==
    /\ \A r \in extraction \cup repeated :
           r.exc = "" => FromIdsPresent(r.value.nodes, r.value.edges)
    /\ FromIdsPresent(all_nodes, all_edges)

\* The walk gathered two files: there is a 'contains' edge from a type to a
\* function among its edges, and an edge whose target is no node gathered.
C14_Witness ==
    /\ pc = "collected"
    /\ files_processed = 2
    /\ \E i \in 1..Len(all_edges) :
           all_edges[i].kind = "contains" /\ all_edges[i].to_id.kind = "function"
    /\ \E i \in 1..Len(all_edges) :
           /\ all_edges[i].kind \in {"extends", "implements"}
           /\ \A j \in 1..Len(all_nodes) : all_nodes[j].id # all_edges[i].to_id

\* ------------------------------------------------------------------ C15
\* C15: the nodes of every result an extractor returns begin with a node of
\* kind 'file', no other node is of that kind, and the hash of that node is
\* the result's file_hash, the checksum of the whole text; the result of the
\* empty text has that node and no other.
C15_FileNodeFirst ==
    \A r \in extraction \cup repeated :
        r.exc = "" =>
            /\ r.value.nodes # <<>>
            /\ r.value.nodes[1].kind = "file"
            /\ \A i \in 2..Len(r.value.nodes) : r.value.nodes[i].kind # "file"
            /\ r.value.nodes[1].hash = {r.value.file_hash}
            /\ r.value.file_hash = MD5(srcText)
            /\ srcText = <<>> => Len(r.value.nodes) = 1

\* A Python text with a function, a class and a constant was extracted.
C15_Witness ==
    /\ pc = "extracted"
    /\ srcLang = "python"
    /\ \E r \in extraction :
           /\ r.exc = ""
           /\ Len(r.value.nodes) = 4
           /\ {r.value.nodes[i].kind : i \in 2..4} = {"function", "class", "constant"}

\* ------------------------------------------------------------------ C16
\* The places of the nodes of the kinds ks, and whether the node at place j
\* is one of them whose span holds the start line of the node at place i
\* strictly inside.
Places(nodes, ks) == { i \in 1..Len(nodes) : nodes[i].kind \in ks }
Encloses(nodes, ks, j, i) ==
    /\ j \in Places(nodes, ks)
    /\ j # i
    /\ nodes[j].line_start < nodes[i].line_start
    /\ nodes[i].line_start < nodes[j].line_end

\* Among them, the innermost: none of the others starts later.
Innermost(nodes, ks, i) ==
    { j \in 1..Len(nodes) :
        /\ Encloses(nodes, ks, j, i)
        /\ \A k \in 1..Len(nodes) :
               Encloses(nodes, ks, k, i) => nodes[k].line_start <= nodes[j].line_start }

\* The 'contains' and 'defines' edges that end at the node at place i.
Parents(r, i) ==
    { k \in 1..Len(r.edges) :
        r.edges[k].kind \in {"contains", "defines"} /\ r.edges[k].to_id = r.nodes[i].id }

\* The node at place i has one parent edge: 'contains' from the innermost of
\* the nodes of the kinds ks around it.
ContainedByInnermost(r, ks, i) ==
    /\ Cardinality(Parents(r, i)) = 1
    /\ \A k \in Parents(r, i) :
           /\ r.edges[k].kind = "contains"
           /\ \E j \in Innermost(r.nodes, ks, i) : r.edges[k].from_id = r.nodes[j].id

\* The node at place i has one parent edge: 'defines' from the file node.
DefinedByFile(r, i) ==
    /\ Cardinality(Parents(r, i)) = 1
    /\ \A k \in Parents(r, i) :
           r.edges[k].kind = "defines" /\ r.edges[k].from_id = r.nodes[1].id

\* The results of the Java extractor in which no two nodes share an id.
JavaResults ==
    { r.value : r \in { x \in extraction : x.exc = "" /\ srcLang = "java"
                                              /\ Unique(NodeIds(x.value.nodes)) } }

\* C16: in a Java result, a class that starts strictly inside the span of
\* another class has exactly one parent edge, 'contains' from the innermost
\* class around it, and a class inside no type has exactly one, 'defines'
\* from the file node.
C16_NestedClassContained ==
    \A r \in JavaResults : \A i \in Places(r.nodes, {"class"}) :
        /\ Innermost(r.nodes, {"class"}, i) # {} => ContainedByInnermost(r, {"class"}, i)
        /\ Innermost(r.nodes, TypeKinds, i) = {} => DefinedByFile(r, i)

\* ------------------------------------------------------------------ C17
\* C17: in a Java result, an interface, enum or annotation that starts
\* strictly inside the span of another type has exactly one parent edge,
\* 'contains' from the innermost type around it; so has a class whose
\* innermost enclosing type is an interface or an enum.
C17_NestedTypeContained ==
    \A r \in JavaResults :
        /\ \A i \in Places(r.nodes, {"interface", "enum", "annotation"}) :
               Innermost(r.nodes, TypeKinds, i) # {} => ContainedByInnermost(r, TypeKinds, i)
        /\ \A i \in Places(r.nodes, {"class"}) :
               (\E j \in Innermost(r.nodes, TypeKinds, i) :
                    r.nodes[j].kind \in {"interface", "enum"})
                   => ContainedByInnermost(r, TypeKinds, i)

\* ------------------------------------------------------------------ C18
\* The types whose span holds the start line of the node at place i strictly
\* inside and is the smallest of those that do.
SmallestAround(nodes, i) ==
    { j \in 1..Len(nodes) :
        /\ Encloses(nodes, TypeKinds, j, i)
        /\ \A k \in 1..Len(nodes) :
               Encloses(nodes, TypeKinds, k, i) =>
                   nodes[j].line_end - nodes[j].line_start
                       <= nodes[k].line_end - nodes[k].line_start }

\* The function at place i of the result r has the one parent edge it should
\* have: 'contains' from the smallest type around it, or 'defines' from the
\* file node when no type is around it.
FunctionParentRight(r, i) ==
    IF SmallestAround(r.nodes, i) # {}
    THEN /\ Cardinality(Parents(r, i)) = 1
         /\ \A k \in Parents(r, i) :
                /\ r.edges[k].kind = "contains"
                /\ \E j \in SmallestAround(r.nodes, i) : r.edges[k].from_id = r.nodes[j].id
    ELSE DefinedByFile(r, i)

\* C18: in a Java result, every function node has exactly one parent edge:
\* 'contains' from the type with the smallest span strictly around its start
\* line, or, inside no type, 'defines' from the file node.
C18_FunctionInInnermostType ==
    \A x \in extraction :
        (x.exc = "" /\ srcLang = "java") =>
            \A i \in Places(x.value.nodes, {"function"}) : FunctionParentRight(x.value, i)

\* What remains of it without the shared ids: it holds of the results in
\* which no two nodes share an id.
FunctionParentsRightWhenUnique ==
    \A r \in JavaResults : \A i \in Places(r.nodes, {"function"}) : FunctionParentRight(r, i)

\* ------------------------------------------------------------------ C19
\* The matches of the method pattern in the text under extraction, and the
\* line each starts on.
MethodMatches ==
    finditer([q \in 1..Len(remove_java_comments(srcText)) |->
                 JAVA_method(remove_java_comments(srcText), q)],
             remove_java_comments(srcText), 1)
MethodLine(m) == LineOf(remove_java_comments(srcText), m.start)

\* The match m has the shape of a constructor of a type of the result r
\* around it: its name and its return-type slot are both the type's name.
ConstructorOfEnclosing(r, m) ==
    \E j \in Places(r.nodes, TypeKinds) :
        /\ r.nodes[j].line_start < MethodLine(m)
        /\ MethodLine(m) < r.nodes[j].line_end
        /\ Join(m.g2) = r.nodes[j].name
        /\ Join(Strip(m.g1)) = r.nodes[j].name

\* The first word of the line, counted from 1, of the text.
FirstWord(line) ==
    Join(SubSeq(Strip(Split(remove_java_comments(srcText), "\n")[line]), 1, 1))

\* C19: in a Java result, no function node starts on the line of a match of
\* the method pattern that has the shape of a constructor of a type around
\* it, nor on a line that begins with throw, return, new, if, for, while or
\* switch; and what was discarded left no edge: the edges that end at a
\* function are as many as the function nodes.
C19_ConstructorsSkipped ==
    \A x \in extraction :
        (x.exc = "" /\ srcLang = "java") =>
            /\ \A k \in 1..Len(MethodMatches) :
                   ConstructorOfEnclosing(x.value, MethodMatches[k]) =>
                       \A i \in Places(x.value.nodes, {"function"}) :
                           x.value.nodes[i].line_start # MethodLine(MethodMatches[k])
            /\ \A i \in Places(x.value.nodes, {"function"}) :
                   ~NotAMethod(FirstWord(x.value.nodes[i].line_start))
            /\ Cardinality({ k \in 1..Len(x.value.edges) :
                                x.value.edges[k].kind \in {"contains", "defines"}
                                /\ x.value.edges[k].to_id.kind = "function" })
                   = Cardinality(Places(x.value.nodes, {"function"}))

\* The text 'class A {', 'A A();', 'return f();', 'void f();' was extracted:
\* the second line matches the method pattern with the name and the slot of
\* the class around it, and the only function of the result is f.
C19_Witness ==
    /\ pc = "extracted"
    /\ srcLang = "java"
    /\ srcText = JoinLines(<< <<"class", " ", "A", " ", "{">>,
                              <<"A", " ", "A", "(", ")", ";">>,
                              <<"return", " ", "f", "(", ")", ";">>,
                              <<"void", " ", "f", "(", ")", ";">> >>)
    /\ \E k \in 1..Len(MethodMatches) : MethodLine(MethodMatches[k]) = 2
    /\ \E x \in extraction :
           /\ x.exc = ""
           /\ \E k \in 1..Len(MethodMatches) : ConstructorOfEnclosing(x.value, MethodMatches[k])
           /\ { x.value.nodes[i].name : i \in Places(x.value.nodes, {"function"}) } = {"f"}

\* ------------------------------------------------------------------ C20
\* The clause of a declaration line after the keyword: what stands between
\* the keyword and the next 'implements' or '{' (or the end of the line).
RECURSIVE UpToClauseEnd(_)
UpToClauseEnd(s) ==
    IF s = <<>> \/ Head(s) \in {"implements", "{"} THEN <<>>
    ELSE <<Head(s)>> \o UpToClauseEnd(Tail(s))

RECURSIVE ClauseOf(_, _)
ClauseOf(line, keyword) ==
    IF line = <<>> THEN <<>>
    ELSE IF Head(line) = keyword THEN UpToClauseEnd(Tail(line))
    ELSE ClauseOf(Tail(line), keyword)

\* The supertypes a clause names: its pieces between the commas that stand
\* outside every pair of angle brackets, each without its generic arguments.
RECURSIVE Supertypes(_, _, _)
Supertypes(s, depth, name) ==
    IF s = <<>> THEN (IF name = "" THEN <<>> ELSE <<name>>)
    ELSE IF Head(s) = "<" THEN Supertypes(Tail(s), depth + 1, name)
    ELSE IF Head(s) = ">" THEN Supertypes(Tail(s), depth - 1, name)
    ELSE IF depth > 0 \/ Head(s) \in Whitespace THEN Supertypes(Tail(s), depth, name)
    ELSE IF Head(s) = "," THEN
        (IF name = "" THEN <<>> ELSE <<name>>) \o Supertypes(Tail(s), 0, "")
    ELSE Supertypes(Tail(s), depth, name \o Head(s))

\* The edges of the kind that leave the node at place i of the result r.
SupertypeEdgesOf(r, i, kind) ==
    { k \in 1..Len(r.edges) : r.edges[k].from_id = r.nodes[i].id /\ r.edges[k].kind = kind }

\* C20: in a Java or TypeScript result, a type declared with an extends or
\* implements clause has, per clause, as many edges of that kind as the
\* clause names supertypes, each to the bare id of one of them without its
\* generic arguments and with confidence 0.8.
C20_OneEdgePerSupertype ==
    \A x \in extraction :
        (x.exc = "" /\ srcLang \in {"java", "typescript"} /\ Unique(NodeIds(x.value.nodes))) =>
            \A i \in Places(x.value.nodes, TypeKinds), kind \in {"extends", "implements"} :
                LET expected == Supertypes(ClauseOf(Split(srcText, "\n")
                                               [x.value.nodes[i].line_start], kind), 0, "")
                    found == SupertypeEdgesOf(x.value, i, kind)
                IN /\ Cardinality(found) = Len(expected)
                   /\ \A k \in found :
                          /\ "bare" \in DOMAIN x.value.edges[k].to_id
                          /\ x.value.edges[k].confidence = ConfidenceUnresolved
                   /\ { x.value.edges[k].to_id.name : k \in found }
                          = { expected[n] : n \in 1..Len(expected) }

\* ------------------------------------------------------------------ C21
\* The lexical reading of a Java or TypeScript text: for each symbol, "code"
\* when it stands outside every literal and comment, else the kind of literal
\* or comment it belongs to (the delimiters included).  A backslash in a
\* literal takes the symbol after it along; a literal ends with its line.
RECURSIVE Lexed(_, _, _)
Lexed(c, p, mode) ==
    IF p > Len(c) THEN <<>>
    ELSE IF mode = "code" THEN
        IF c[p] = "\"" THEN <<"string">> \o Lexed(c, p + 1, "string")
        ELSE IF c[p] = "'" THEN <<"char">> \o Lexed(c, p + 1, "char")
        ELSE IF c[p] = "//" THEN <<"line">> \o Lexed(c, p + 1, "line")
        ELSE IF c[p] = "/*" THEN <<"block">> \o Lexed(c, p + 1, "block")
        ELSE <<"code">> \o Lexed(c, p + 1, "code")
    ELSE IF mode \in {"string", "char"} THEN
        IF c[p] = "\n" THEN <<"code">> \o Lexed(c, p + 1, "code")
        ELSE IF c[p] = "\\" /\ p < Len(c) THEN <<mode, mode>> \o Lexed(c, p + 2, mode)
        ELSE IF (mode = "string" /\ c[p] = "\"") \/ (mode = "char" /\ c[p] = "'")
            THEN <<mode>> \o Lexed(c, p + 1, "code")
        ELSE <<mode>> \o Lexed(c, p + 1, mode)
    ELSE IF mode = "line" THEN
        IF c[p] = "\n" THEN <<"code">> \o Lexed(c, p + 1, "code")
        ELSE <<"line">> \o Lexed(c, p + 1, "line")
    ELSE IF c[p] = "*/" THEN <<"block">> \o Lexed(c, p + 1, "code")
    ELSE <<"block">> \o Lexed(c, p + 1, "block")

Lexical(c) == Lexed(c, 1, "code")

\* The position of the brace that closes the first brace opened in code at or
\* after position p (0: there is none), depth braces being open.
RECURSIVE ClosingBrace(_, _, _, _)
ClosingBrace(c, lex, p, depth) ==
    IF p > Len(c) THEN 0
    ELSE IF lex[p] = "code" /\ c[p] = "{" THEN ClosingBrace(c, lex, p + 1, depth + 1)
    ELSE IF lex[p] = "code" /\ c[p] = "}" /\ depth = 1 THEN p
    ELSE IF lex[p] = "code" /\ c[p] = "}" /\ depth > 1 THEN
        ClosingBrace(c, lex, p + 1, depth - 1)
    ELSE ClosingBrace(c, lex, p + 1, depth)

\* The position at which line n of the text starts (lines counted from 1).
LineStartAt(c, n) ==
    IF n = 1 THEN 1
    ELSE 1 + CHOOSE p \in 1..Len(c) :
                 c[p] = "\n" /\ Cardinality({ q \in 1..p : c[q] = "\n" }) = n - 1

\* The closing brace of the declaration that begins on line n.
ClosingBraceOf(c, n) == ClosingBrace(c, Lexical(c), LineStartAt(c, n), 0)

\* Line n of the text is, in code, the first line of the declaration of the
\* given kind and name.
DeclaredOn(c, n, kind, name) ==
    /\ n \in 1..Len(Split(c, "\n"))
    /\ Lexical(c)[LineStartAt(c, n)] = "code"
    /\ Split(c, "\n")[n] \in
           CASE kind = "class" -> { <<"class", " ", name, " ", "{">> }
             [] kind = "interface" -> { <<"interface", " ", name, " ", "{">> }
             [] kind = "function" ->
                    { <<"void", " ", name, "(", ")", " ", "{">>,
                      <<"export", " ", "function", " ", name, "(", ")", " ", "{">> }
             [] OTHER -> {}

\* Every comment the text opens with /* is closed.
CommentsClosed(c) == c = <<>> \/ Lexical(c)[Len(c)] # "block" \/ c[Len(c)] = "*/"

\* The text holds no comment.
NoComment(c) == \A p \in 1..Len(c) : Lexical(c)[p] \notin {"line", "block"}

\* Between the start of line n and the closing brace of its declaration, a
\* literal of one of the given kinds holds a brace.
BraceInLiteral(c, n, literals) ==
    \E p \in LineStartAt(c, n)..ClosingBraceOf(c, n) :
        Lexical(c)[p] \in literals /\ c[p] \in {"{", "}"}

\* The nodes of the result of the extractor of the given language on the
\* text, when it returned one.
ExtractedNodes(language) ==
    UNION { { r.value.nodes[i] : i \in 1..Len(r.value.nodes) } :
              r \in { x \in extraction : x.exc = "" /\ srcLang = language } }

\* The node spans the declaration that begins on its line_start, up to the
\* line of the closing brace of that declaration.
EndsAtClosingBrace(c, node) ==
    node.line_end = LineOf(c, ClosingBraceOf(c, node.line_start))

\* C21: in the result of the Java extractor on a text without comments, a
\* class or method whose body, up to the brace that closes it, holds a string
\* or character literal with a brace in it (the literal may also hold an
\* escaped quote or the characters //) has for line_end the line of that
\* closing brace.
C21_LiteralBracesIgnored ==
    \A node \in ExtractedNodes("java") :
        ( /\ node.kind \in {"class", "function"}
          /\ NoComment(srcText)
          /\ DeclaredOn(srcText, node.line_start, node.kind, node.name)
          /\ ClosingBraceOf(srcText, node.line_start) # 0
          /\ BraceInLiteral(srcText, node.line_start, {"string", "char"}) )
        => EndsAtClosingBrace(srcText, node)

\* The literals of the text hold no comment marker.
NoMarkerInLiteral(c) ==
    \A p \in 1..Len(c) : Lexical(c)[p] \in {"string", "char"} => c[p] \notin {"//", "/*", "*/"}

\* The same holds of every such text whose literals hold no comment marker:
\* _find_java_block_end itself skips braces, quotes and escapes in literals.
LiteralBracesIgnoredWithoutMarkers ==
    NoMarkerInLiteral(srcText) => C21_LiteralBracesIgnored

\* ------------------------------------------------------------------ C22
\* The package the text declares: "p" when one of its lines, in code, is the
\* declaration 'package p;', else none ("").
DeclaredPackage(c) ==
    IF \E n \in 1..Len(Split(c, "\n")) :
           /\ Split(c, "\n")[n] = <<"package", " ", "p", ";">>
           /\ Lexical(c)[LineStartAt(c, n)] = "code"
    THEN "p" ELSE ""

\* '<kind>.<file_path>:<package>.<name>', or '<kind>.<file_path>:<name>' in a
\* text without a package.
QualifiedId(node, package) ==
    make_node_id(node.kind, node.file_path,
                 IF package = "" THEN node.name ELSE package \o "." \o node.name)

\* C22: every declaration node of a Java result (every node but the file
\* node) on a text whose comments are closed has the id built from its kind,
\* its file path and its name qualified with the package the text declares,
\* the bare name when it declares none.
C22_IdsPackageQualified ==
    \A node \in ExtractedNodes("java") :
        (node.kind # "file" /\ CommentsClosed(srcText))
        => node.id = QualifiedId(node, DeclaredPackage(srcText))

\* The same of the class nodes alone.
ClassIdsPackageQualified ==
    \A node \in ExtractedNodes("java") :
        (node.kind = "class" /\ CommentsClosed(srcText))
        => node.id = QualifiedId(node, DeclaredPackage(srcText))

\* ------------------------------------------------------------------ C23
\* C23: when extract_from_directory returns, the file_path of every node of
\* the batch is a key of the returned hash table, the path of the node's file
\* relative to the root, under which the checksum of that file is stored.
C23_NodePathsRelative ==
    pc = "returned" =>
        \A i \in 1..Len(all_nodes) : all_nodes[i].file_path \in DOMAIN ReturnedHashes

\* What holds instead: the file_path is the root as the caller spelled it
\* joined with such a key.
NodePathsJoinedWithRoot ==
    pc = "returned" =>
        \A i \in 1..Len(all_nodes) :
            \E rel_path \in DOMAIN ReturnedHashes :
                all_nodes[i].file_path = JoinPath(directory, rel_path)

\* ------------------------------------------------------------------ C24
\* C24: for every class or function node of a Java result on a text whose
\* comments are closed and whose literals hold no comment marker, line_start
\* is the number, in the text handed to the extractor, of the line on which
\* the declaration of that node begins, and line_end the number in that text
\* of the line of the brace that closes the declaration, comments before the
\* declaration or not.
C24_SpansInOriginalLines ==
    \A node \in ExtractedNodes("java") :
        ( /\ node.kind \in {"class", "function"}
          /\ CommentsClosed(srcText)
          /\ NoMarkerInLiteral(srcText) )
        => /\ DeclaredOn(srcText, node.line_start, node.kind, node.name)
           /\ ClosingBraceOf(srcText, node.line_start) # 0
                  => EndsAtClosingBrace(srcText, node)

\* The same holds of the texts without a comment.
SpansRightWithoutComments ==
    NoComment(srcText) => C24_SpansInOriginalLines

\* ------------------------------------------------------------------ C25
\* C25: a call of either resolver returns the line of the closing brace that
\* matches the first brace opened at or after the start line, closing braces
\* before that first opening brace not counting, and the number of the last
\* line when the input ends before that brace is closed.
C25_MatchesFirstOpenBracket ==
    pc = "resolved" =>
        \A r \in extraction :
            r.line_end =
                IF ClosingBraceOf(srcText, r.start_line + 1) # 0
                THEN LineOf(srcText, ClosingBraceOf(srcText, r.start_line + 1))
                ELSE Len(Split(srcText, "\n"))

\* No closing brace stands before the first opening brace at or after
\* position p.
RECURSIVE OpensFirst(_, _)
OpensFirst(c, p) ==
    p > Len(c) \/ c[p] = "{" \/ (c[p] # "}" /\ OpensFirst(c, p + 1))

\* The same holds of the calls in which the first brace at or after the start
\* line is an opening one.
MatchesWhenOpenedFirst ==
    (pc = "resolved" /\ \A r \in extraction : OpensFirst(srcText, LineStartAt(srcText, r.start_line + 1)))
    => C25_MatchesFirstOpenBracket

\* ------------------------------------------------------------------ C26
\* C26: in a TypeScript result, a function or interface whose body, up to the
\* brace that closes it, holds a quoted literal with a brace in it has for
\* line_end the line of that closing brace.
C26_TsLiteralBracesIgnored ==
    \A node \in ExtractedNodes("typescript") :
        ( /\ node.kind \in {"function", "interface"}
          /\ DeclaredOn(srcText, node.line_start, node.kind, node.name)
          /\ ClosingBraceOf(srcText, node.line_start) # 0
          /\ BraceInLiteral(srcText, node.line_start, {"string", "char"}) )
        => EndsAtClosingBrace(srcText, node)

\* The text holds no literal.
NoLiteral(c) == \A p \in 1..Len(c) : Lexical(c)[p] \notin {"string", "char"}

\* Without literals the line_end of such a node is the line of its closing
\* brace.
TsEndsAtClosingBraceWithoutLiterals ==
    \A node \in ExtractedNodes("typescript") :
        ( /\ node.kind \in {"function", "interface"}
          /\ NoLiteral(srcText)
          /\ ClosingBraceOf(srcText, node.line_start) # 0 )
        => /\ DeclaredOn(srcText, node.line_start, node.kind, node.name)
           /\ EndsAtClosingBrace(srcText, node)

\* ------------------------------------------------------------------ C27
\* An incremental sync is running, or has ended, on the directory as it was
\* when the table it was given was returned by the sync before it.
ResyncOfUnchanged ==
    /\ pc \in {"walking", "returned", "raised"}
    /\ incremental
    /\ chained # "no"
    /\ fs = snapshot

\* C27: an incremental sync of the unchanged directory, given the table H
\* the sync before it (full or incremental) returned, comes to its end,
\* calls extract_from_file on no file of H, processes no file, emits no node
\* and no edge, and returns a table equal to H.
C27_ResyncIsFixpoint ==
    ResyncOfUnchanged =>
        /\ pc # "raised"
        /\ invoked \cap DOMAIN heap.caller = {}
        /\ files_processed = 0
        /\ all_nodes = <<>>
        /\ all_edges = <<>>
        /\ pc = "returned" => ReturnedHashes = heap.caller

\* The same holds of every such sync that no exception leaves.
ResyncIsFixpointUnlessRaised ==
    pc # "raised" => C27_ResyncIsFixpoint

\* Such a sync returned after skipping a file.
ResyncSkipped ==
    ResyncOfUnchanged /\ pc = "returned" /\ files_skipped > 0

\* ------------------------------------------------------------------ C28
\* No directory on the way to file p is one of the ignored ones.
OutsideIgnored(p) == \A i \in 1..Len(p.dirs) : p.dirs[i] \notin IGNORED_DIRS

\* The supported files outside the ignored directories that the running walk
\* has handled so far.
VisitedSupported == { p \in Visited : Supported(p) /\ OutsideIgnored(p) }

\* The files extract_from_file was called on, by its outcome: a result with
\* errors (failed) or without (processed).
FailedFiles ==
    { p \in invoked : extract_from_file(JoinPath(directory, p), fs[p]).value.errors # <<>> }
ProcessedFiles == invoked \ FailedFiles

\* C28: at every point of a call on an existing directory that no exception
\* has left, and so when it returns, each supported file outside the ignored
\* directories handled so far is in exactly one of the classes skipped,
\* processed and failed, and no other file is in any; files_skipped and
\* files_processed are the sizes of the first two; errors holds one string
\* per failed file, the one extract_from_file reports for it; every node and
\* edge of the batch is of a processed file; a call that returns has handled
\* every file the walk lists.
C28_ThreeClasses ==
    (pc \in {"walking", "returned"} /\ dirExists) =>
        /\ skipped \cup invoked = VisitedSupported
        /\ skipped \cap invoked = {}
        /\ files_skipped = Cardinality(skipped)
        /\ files_processed = Cardinality(ProcessedFiles)
        /\ Len(errors) = Cardinality(FailedFiles)
        /\ \A p \in FailedFiles :
               \E i \in 1..Len(errors) :
                   <<errors[i]>> = extract_from_file(JoinPath(directory, p), fs[p]).value.errors
        /\ \A i \in 1..Len(all_nodes) : all_nodes[i].file_path.rel \in ProcessedFiles
        /\ \A i \in 1..Len(all_edges) : all_edges[i].from_id.file_path.rel \in ProcessedFiles
        /\ \A p \in ProcessedFiles : NodesOf(p) # {}
        /\ pc = "returned" =>
               VisitedSupported = { p \in Present(fs) : Supported(p) /\ OutsideIgnored(p) }

\* An incremental call returned after skipping one file and failing on
\* another.
C28_Witness ==
    /\ pc = "returned"
    /\ dirExists
    /\ Cardinality(skipped) = 1
    /\ Cardinality(FailedFiles) = 1
    /\ ProcessedFiles = {}

\* ------------------------------------------------------------------ C29
\* The files whose extraction failed in the sync that returned the table now
\* supplied, and that have not changed since: listed then and now, supported,
\* and without an entry in the table.
FailedBefore ==
    { p \in Listed(fs) :
        /\ Supported(p)
        /\ chained # "no"
        /\ snapshot[p] = fs[p]
        /\ p \notin DOMAIN Supplied }

\* C29: the keys of the table a call on an existing directory returns are the
\* files it skipped and the files it processed, so that a key of the supplied
\* table whose file is gone or lies below an ignored directory is dropped and
\* a file whose extraction fails has no entry; and an incremental sync that
\* is given such a table comes again to every file whose extraction failed in
\* the sync that returned it: it calls extract_from_file on it, or ends with
\* an exception raised on that very file.
C29_KeysAreSkippedOrProcessed ==
    /\ (pc = "returned" /\ dirExists) =>
           /\ DOMAIN ReturnedHashes = skipped \cup ProcessedFiles
           /\ \A p \in DOMAIN Supplied :
                  (fs[p] = Absent \/ ~OutsideIgnored(p)) => p \notin DOMAIN ReturnedHashes
           /\ FailedFiles \cap DOMAIN ReturnedHashes = {}
    /\ (pc \in {"returned", "raised"} /\ dirExists /\ incremental) =>
           FailedBefore \subseteq
               invoked \cup (IF pc = "raised" /\ queue # <<>> THEN {Head(queue)} ELSE {})

\* The same holds of the calls that no exception leaves.
KeysAreSkippedOrProcessedUnlessRaised ==
    pc # "raised" => C29_KeysAreSkippedOrProcessed

\* A sync that returned dropped the key of a file that is gone.
KeyOfMissingFileDropped ==
    /\ pc = "returned"
    /\ dirExists
    /\ \E p \in DOMAIN Supplied : fs[p] = Absent
    /\ ReturnedHashes # EmptyDict

\* ------------------------------------------------------------------ C30
\* The nodes and edges a full sync of the directory as it is emits.
FullSyncOf(dir) ==
    LET b == FullWalk(CHOOSE q \in WalkOrders(fs) : TRUE, dir, EmptyBatch)
    IN [nodes |-> { b.nodes[i] : i \in 1..Len(b.nodes) },
        edges |-> { b.edges[i] : i \in 1..Len(b.edges) }]

\* The store is up to date: the batch of an incremental sync that followed the
\* last change of the directory was handed to it, in a chain of such syncs
\* from an empty table and an empty store.
UpToDate == pc = "idle" /\ chained = "inc" /\ edits = 0

\* C30: after every incremental sync of such a chain, the store holds exactly
\* the nodes and edges a full sync of the directory as it is then emits.
C30_ChainedSyncsEqualFullSync ==
    UpToDate => store = FullSyncOf(directory)

\* What holds: the store holds all of them, beside what it still holds of
\* files that are gone or whose extraction now fails.
StoreCoversFullSync ==
    UpToDate =>
        /\ FullSyncOf(directory).nodes \subseteq store.nodes
        /\ FullSyncOf(directory).edges \subseteq store.edges

====
